---- MODULE Spec2Model ----
(***************************************************************************)
(* VOCEX voice-command assistant: the Command Router                        *)
(* (voice_control/command_processor.py).                                    *)
(*                                                                          *)
(* Python strings are modelled as sequences of one-character strings, so    *)
(* that lower(), strip(), the `in` substring test and replace() are         *)
(* computed character by character as CPython computes them.                *)
(***************************************************************************)
EXTENDS Integers, Sequences, FiniteSets, TLC

(***************************************************************************)
(* Bounds of the model.                                                     *)
(***************************************************************************)
\* process_command calls in one behaviour (each reads the clock once more)
MaxCalls == 2
\* fragments concatenated into one input text of _parse_command
MaxFrags == 3
\* process_command calls made beyond self.max_history
MaxExtra == 2
\* items put on the feedback queue, over all speak and speak_immediate calls
MaxPuts == 3
\* the length add_wake_word lets the Wake Word Set reach
MaxWakeWords == 4
\* threads started by start_listening
MaxStarts == 3

(***************************************************************************)
(* str methods                                                              *)
(***************************************************************************)
UpperLetters ==
  <<"A","B","C","D","E","F","G","H","I","J","K","L","M",
    "N","O","P","Q","R","S","T","U","V","W","X","Y","Z">>

LowerLetters ==
  <<"a","b","c","d","e","f","g","h","i","j","k","l","m",
    "n","o","p","q","r","s","t","u","v","w","x","y","z">>

Whitespace == {" ", "\t", "\n"}

\* str.lower() on the letters A..Z
LowerOf ==
  [c \in {UpperLetters[i] : i \in 1..Len(UpperLetters)} |->
     LowerLetters[CHOOSE i \in 1..Len(UpperLetters) : UpperLetters[i] = c]]

\* one character of str.lower()
LowerChar(c) == IF c \in DOMAIN LowerOf THEN LowerOf[c] ELSE c

\* str.lower()
Lower(s) == [i \in 1..Len(s) |-> LowerChar(s[i])]

\* str.strip(): leading and trailing whitespace removed
Strip(s) ==
  LET keep == {i \in 1..Len(s) : s[i] \notin Whitespace}
  IN  IF keep = {} THEN << >>
      ELSE LET lo == CHOOSE i \in keep : \A j \in keep : i <= j
               hi == CHOOSE i \in keep : \A j \in keep : j <= i
           IN  SubSeq(s, lo, hi)

\* s[at : at + len(p)] == p, for a 1-based position `at`
MatchesAt(s, p, at) ==
  /\ at + Len(p) - 1 <= Len(s)
  /\ \A k \in 1..Len(p) : s[at + k - 1] = p[k]

\* the Python test `p in s` on strings
Contains(s, p) == \E at \in 1..(Len(s) - Len(p) + 1) : MatchesAt(s, p, at)

RECURSIVE ReplaceFrom(_, _, _, _)
\* str.replace(old, new) for a non-empty `old`, scanning from position `at`:
\* leftmost occurrences, none overlapping an earlier one
ReplaceFrom(s, old, new, at) ==
  IF at > Len(s) THEN << >>
  ELSE IF MatchesAt(s, old, at)
       THEN new \o ReplaceFrom(s, old, new, at + Len(old))
       ELSE <<s[at]>> \o ReplaceFrom(s, old, new, at + 1)

RECURSIVE Interleave(_, _)
\* str.replace("", new): `new` before every character and at the end
Interleave(s, new) ==
  IF s = << >> THEN new ELSE new \o <<Head(s)>> \o Interleave(Tail(s), new)

\* str.replace(old, new, 1): only the leftmost occurrence
ReplaceFirst(s, old, new) ==
  IF ~Contains(s, old) THEN s
  ELSE LET at == CHOOSE i \in 1..(Len(s) - Len(old) + 1) :
                   /\ MatchesAt(s, old, i)
                   /\ \A j \in 1..(i - 1) : ~MatchesAt(s, old, j)
       IN  SubSeq(s, 1, at - 1) \o new \o SubSeq(s, at + Len(old), Len(s))

\* str.replace(old, new)
Replace(s, old, new) ==
  IF old = << >> THEN Interleave(s, new) ELSE ReplaceFrom(s, old, new, 1)

(***************************************************************************)
(* The tables built by CommandProcessor.__init__                            *)
(***************************************************************************)
\* Python's None (no one-character string equals it)
None == <<"None">>

\* self.commands: a dict, kept in insertion order
DefaultCommands ==
  << [key |-> <<"o","p","e","n">>, handler |-> "open_program"],
     [key |-> <<"l","a","u","n","c","h">>, handler |-> "open_program"],
     [key |-> <<"s","t","a","r","t">>, handler |-> "open_program"],
     [key |-> <<"r","u","n">>, handler |-> "open_program"],
     [key |-> <<"w","r","i","t","e">>, handler |-> "write_text"],
     [key |-> <<"t","y","p","e">>, handler |-> "write_text"],
     [key |-> <<"s","e","a","r","c","h">>, handler |-> "search_web"],
     [key |-> <<"g","o","o","g","l","e">>, handler |-> "search_web"],
     [key |-> <<"f","i","n","d">>, handler |-> "search_web"],
     [key |-> <<"l","o","o","k","u","p">>, handler |-> "search_web"],
     [key |-> <<"c","l","o","s","e">>, handler |-> "close_program"],
     [key |-> <<"e","x","i","t">>, handler |-> "close_program"],
     [key |-> <<"q","u","i","t">>, handler |-> "close_program"],
     [key |-> <<"k","i","l","l">>, handler |-> "close_program"],
     [key |-> <<"c","o","p","y">>, handler |-> "copy_to_clipboard"],
     [key |-> <<"p","a","s","t","e">>, handler |-> "paste_from_clipboard"],
     [key |-> <<"s","c","r","e","e","n","s","h","o","t">>, handler |-> "take_screenshot"],
     [key |-> <<"v","o","l","u","m","e">>, handler |-> "control_volume"],
     [key |-> <<"b","r","i","g","h","t","n","e","s","s">>, handler |-> "control_brightness"],
     [key |-> <<"m","u","t","e">>, handler |-> "toggle_mute"],
     [key |-> <<"f","i","l","e">>, handler |-> "file_operations"],
     [key |-> <<"f","o","l","d","e","r">>, handler |-> "file_operations"],
     [key |-> <<"d","i","r","e","c","t","o","r","y">>, handler |-> "file_operations"],
     [key |-> <<"t","i","m","e">>, handler |-> "get_time"],
     [key |-> <<"d","a","t","e">>, handler |-> "get_date"],
     [key |-> <<"w","e","a","t","h","e","r">>, handler |-> "get_weather"],
     [key |-> <<"r","e","m","i","n","d","e","r">>, handler |-> "set_reminder"],
     [key |-> <<"n","o","t","e">>, handler |-> "create_note"],
     [key |-> <<"e","m","a","i","l">>, handler |-> "send_email"],
     [key |-> <<"m","e","s","s","a","g","e">>, handler |-> "send_message"] >>

\* self.programs as (name, launch target) pairs
DefaultProgramPairs ==
  { <<<<"n","o","t","e","p","a","d">>, <<"n","o","t","e","p","a","d",".","e","x","e">>>>,
    <<<<"w","o","r","d">>, <<"w","i","n","w","o","r","d",".","e","x","e">>>>,
    <<<<"e","x","c","e","l">>, <<"e","x","c","e","l",".","e","x","e">>>>,
    <<<<"p","o","w","e","r","p","o","i","n","t">>, <<"p","o","w","e","r","p","n","t",".","e","x","e">>>>,
    <<<<"c","h","r","o","m","e">>, <<"c","h","r","o","m","e",".","e","x","e">>>>,
    <<<<"f","i","r","e","f","o","x">>, <<"f","i","r","e","f","o","x",".","e","x","e">>>>,
    <<<<"e","d","g","e">>, <<"m","s","e","d","g","e",".","e","x","e">>>>,
    <<<<"c","a","l","c","u","l","a","t","o","r">>, <<"c","a","l","c",".","e","x","e">>>>,
    <<<<"p","a","i","n","t">>, <<"m","s","p","a","i","n","t",".","e","x","e">>>>,
    <<<<"e","x","p","l","o","r","e","r">>, <<"e","x","p","l","o","r","e","r",".","e","x","e">>>>,
    <<<<"c","o","n","t","r","o","l"," ","p","a","n","e","l">>, <<"c","o","n","t","r","o","l",".","e","x","e">>>>,
    <<<<"t","a","s","k"," ","m","a","n","a","g","e","r">>, <<"t","a","s","k","m","g","r",".","e","x","e">>>>,
    <<<<"c","m","d">>, <<"c","m","d",".","e","x","e">>>>,
    <<<<"p","o","w","e","r","s","h","e","l","l">>, <<"p","o","w","e","r","s","h","e","l","l",".","e","x","e">>>>,
    <<<<"r","e","g","e","d","i","t">>, <<"r","e","g","e","d","i","t",".","e","x","e">>>>,
    <<<<"s","e","r","v","i","c","e","s">>, <<"s","e","r","v","i","c","e","s",".","m","s","c">>>>,
    <<<<"d","e","v","i","c","e"," ","m","a","n","a","g","e","r">>, <<"d","e","v","m","g","m","t",".","m","s","c">>>>,
    <<<<"s","p","o","t","i","f","y">>, <<"s","p","o","t","i","f","y",".","e","x","e">>>>,
    <<<<"d","i","s","c","o","r","d">>, <<"d","i","s","c","o","r","d",".","e","x","e">>>>,
    <<<<"s","t","e","a","m">>, <<"s","t","e","a","m",".","e","x","e">>>>,
    <<<<"v","s","c","o","d","e">>, <<"c","o","d","e",".","e","x","e">>>>,
    <<<<"s","u","b","l","i","m","e">>, <<"s","u","b","l","i","m","e","_","t","e","x","t",".","e","x","e">>>>,
    <<<<"p","h","o","t","o","s","h","o","p">>, <<"p","h","o","t","o","s","h","o","p",".","e","x","e">>>>,
    <<<<"i","l","l","u","s","t","r","a","t","o","r">>, <<"i","l","l","u","s","t","r","a","t","o","r",".","e","x","e">>>>,
    <<<<"p","r","e","m","i","e","r","e">>, <<"p","r","e","m","i","e","r","e",".","e","x","e">>>>,
    <<<<"a","f","t","e","r"," ","e","f","f","e","c","t","s">>, <<"a","f","t","e","r","f","x",".","e","x","e">>>>,
    <<<<"b","l","e","n","d","e","r">>, <<"b","l","e","n","d","e","r",".","e","x","e">>>>,
    <<<<"u","n","i","t","y">>, <<"u","n","i","t","y",".","e","x","e">>>>,
    <<<<"u","n","r","e","a","l">>, <<"u","n","r","e","a","l",".","e","x","e">>>>,
    <<<<"z","o","o","m">>, <<"z","o","o","m",".","e","x","e">>>>,
    <<<<"t","e","a","m","s">>, <<"t","e","a","m","s",".","e","x","e">>>>,
    <<<<"s","k","y","p","e">>, <<"s","k","y","p","e",".","e","x","e">>>>,
    <<<<"w","h","a","t","s","a","p","p">>, <<"w","h","a","t","s","a","p","p",".","e","x","e">>>>,
    <<<<"t","e","l","e","g","r","a","m">>, <<"t","e","l","e","g","r","a","m",".","e","x","e">>>>,
    <<<<"s","l","a","c","k">>, <<"s","l","a","c","k",".","e","x","e">>>>,
    <<<<"n","o","t","i","o","n">>, <<"n","o","t","i","o","n",".","e","x","e">>>>,
    <<<<"o","b","s","i","d","i","a","n">>, <<"o","b","s","i","d","i","a","n",".","e","x","e">>>>,
    <<<<"r","o","a","m">>, <<"r","o","a","m",".","e","x","e">>>>,
    <<<<"l","o","g","s","e","q">>, <<"l","o","g","s","e","q",".","e","x","e">>>> }


\* self.programs after _load_default_programs: name -> launch target
DefaultPrograms ==
  [n \in {p[1] : p \in DefaultProgramPairs} |->
     (CHOOSE p \in DefaultProgramPairs : p[1] = n)[2]]

(***************************************************************************)
(* Inputs                                                                   *)
(***************************************************************************)
wOpen    == <<"o","p","e","n">>
wSearch  == <<"s","e","a","r","c","h">>
wGo      == <<"g","o">>
wZap     == <<"z","a","p">>
wNotepad == <<"n","o","t","e","p","a","d">>
wChrome  == <<"c","h","r","o","m","e">>
wHello   == <<"H","e","l","l","o">>
wClose   == <<"c","l","o","s","e">>
sp       == <<" ">>

\* the pieces input texts of _parse_command are built from
Fragments == { wOpen, wSearch, <<"O","p">>, <<"e","n">>, sp }

RECURSIVE TextsOf(_)
\* the concatenations of at most n fragments
TextsOf(n) ==
  IF n = 0 THEN { << >> }
  ELSE LET shorter == TextsOf(n - 1)
       IN  shorter \cup { t \o f : t \in shorter, f \in Fragments }

Texts == TextsOf(MaxFrags)

\* the texts handed to process_command (spoken or typed)
Utterances ==
  { << >>,
    <<"O","p","e","n">> \o sp \o <<"N","o","t","e","p","a","d">>,
    sp \o wHello \o sp,
    wGo \o sp \o wChrome,
    wSearch \o sp \o wChrome,
    wClose \o sp \o wNotepad,
    wClose \o sp \o wChrome,
    wClose \o sp \o <<"d","o","e","s","n","o","t","e","x","i","s","t">> }

\* (alias, command) arguments of add_alias whose alias is a command keyword
AliasArgs ==
  { <<<<"S","e","a","r","c","h">>, <<"O","p","e","n">>>>, <<wOpen, wZap>> }

\* (alias, command) arguments of add_alias whose alias is a new word
NewWordAliasArgs == { <<wGo, wOpen>> }

\* (name, handler) arguments of add_command
CommandArgs == { <<<<"E","n">>, "search_web">>, <<<< >>, "get_time">> }

\* (name, path) arguments of add_program
ProgramArgs == { <<<<"C","h","r","o","m","e">>, <<"c","h","r","o","m","i","u","m">>>> }

\* the OS processes running when the assistant starts: (pid, name)
InitialProcs ==
  { [pid |-> 1, name |-> <<"N","o","t","e","p","a","d",".","e","x","e">>],
    [pid |-> 2, name |-> <<"n","o","t","e","p","a","d",".","e","x","e">>] }

(***************************************************************************)
(* State                                                                    *)
(***************************************************************************)
VARIABLES
  commands,           \* self.commands: sequence of [key, handler], insertion order
  programs,           \* self.programs: name -> launch target
  aliases,            \* self.aliases: alias -> command
  command_history,    \* self.command_history: sequence of [command, timestamp]
  max_history,        \* self.max_history
  AUTOGUI_AVAILABLE,  \* module flag: pyautogui could be imported
  now,                \* the clock datetime.now() reads
  procs,              \* the running OS processes psutil enumerates
  autogui,            \* the calls made to pyautogui, in order
  spawned,            \* the subprocess.Popen calls that succeeded, in order
  utterance,          \* the text waiting to be handed to _parse_command
  call,               \* the operation called last, with its text argument
  parsed,             \* what _parse_command returned in that call (NoValue: not run)
  dispatched,         \* the handler _execute_command invoked in that call, and with what
  outcome,            \* what that handler did: raised or returned, and its effects
  envelope,           \* what process_command returned in that call
  processed,          \* the texts handed to process_command since the last clear_history
  writer,             \* the capture thread inside _add_to_history: where it is, with what
  foreground,         \* the foreground thread inside _add_to_history, likewise
  observed,           \* what get_history returned to the foreground (NoValue: not called)
  voice_enabled,      \* VoiceFeedback.voice_enabled
  feedback_queue,     \* VoiceFeedback.feedback_queue: the items put and not yet got, oldest first
  tts,                \* which voice-output backends initialised: [pyttsx3, gtts]
  consumer,           \* the feedback thread: where in _feedback_loop it is, holding what
  interrupter,        \* a thread inside speak_immediate: where it is, with what text
  puts,               \* how many items were ever put on feedback_queue
  taken,              \* the items the feedback thread got from the queue, in order
  taken_at_disable,   \* how many it had got when disable_voice was last called
  spoken,             \* the calls of _speak_text, in order: the item, the backend, how it ended
  SPEECH_AVAILABLE,   \* module flag: the Google recognizer and the microphone initialised
  WHISPER_AVAILABLE,  \* module flag: the Whisper model loaded
  is_listening,       \* SpeechEngine.is_listening
  is_running,         \* SpeechEngine.is_running
  listen_threads,     \* every thread start_listening started, in order: where in _listen_loop it is
  voice_rate,         \* VoiceFeedback.voice_rate
  wake_words,         \* SpeechEngine.wake_words, in list order
  recognizer,         \* whether self.recognizer and self.microphone were constructed
  calibrated,         \* how _adjust_for_ambient_noise ended in __init__ ("skipped": not run)
  heard,              \* the last iteration of a capture loop: backends tried, outcome, callback
  robust              \* the XizoAssistant of xizo_robust.py: speech_working, is_listening, threads

\* the VoiceFeedback object and its threads
feedbackVars ==
  << voice_enabled, feedback_queue, tts, voice_rate, consumer, interrupter, puts, taken,
     taken_at_disable, spoken >>

\* what SpeechEngine.__init__ sets up besides the flags, what its capture
\* loop heard last, and the capture state of the xizo_robust.py variant
captureState == << wake_words, recognizer, calibrated, heard, robust >>

\* the SpeechEngine object and its threads
engineVars ==
  << SPEECH_AVAILABLE, WHISPER_AVAILABLE, is_listening, is_running, listen_threads,
     captureState >>

\* the state of everything but the CommandProcessor's own attributes and results
elsewhere == << writer, foreground, observed, feedbackVars, engineVars >>

vars ==
  << commands, programs, aliases, command_history, max_history,
     AUTOGUI_AVAILABLE, now, procs, autogui, spawned, utterance, call, parsed, dispatched, outcome, envelope,
     processed, elsewhere >>

\* nothing returned yet
NoValue == [none |-> TRUE]

\* {}
EmptyDict == [k \in {} |-> k]

DEFAULT_MAX_HISTORY == 100

\* both voice-output backends initialised
BothBackends == [pyttsx3 |-> TRUE, gtts |-> TRUE]

\* voice_rate: int = 150
DEFAULT_VOICE_RATE == 150

\* the state VoiceFeedback.__init__ leaves: the feedback thread is started
\* only when voice_enabled
FeedbackConstructed(enabled, backends) ==
  /\ voice_enabled = enabled
  /\ feedback_queue = << >>
  /\ tts = backends
  /\ voice_rate = DEFAULT_VOICE_RATE
  /\ consumer = [at |-> IF enabled THEN "top" ELSE "dead"]
  /\ interrupter = [at |-> "idle"]
  /\ puts = 0
  /\ taken = << >>
  /\ taken_at_disable = 0
  /\ spoken = << >>

\* wake_words or ["xizo", "hey xizo", "listen xizo"]
DefaultWakeWords == << <<"x","i","z","o">>, <<"h","e","y"," ","x","i","z","o">>, <<"l","i","s","t","e","n"," ","x","i","z","o">> >>

\* the state XizoAssistant.__init__ (xizo_robust.py) leaves: speech_working
\* is set when the recognizer and the microphone were constructed, and
\* adjust_for_ambient_noise clears it again when the calibration fails
AssistantConstructed(google, calibration) ==
  robust = [speech_working |-> google /\ calibration = "ok",
            is_listening |-> FALSE,
            listen_threads |-> 0]

\* the state SpeechEngine.__init__ leaves: `google` says that speech_recognition
\* was imported and the recognizer and the microphone were constructed,
\* `whisper` that the Whisper model loaded, `calibration` how
\* adjust_for_ambient_noise ended ("ok" or "failed"); _adjust_for_ambient_noise
\* catches and logs a failure, which leaves SPEECH_AVAILABLE as it was
EngineInitialised(google, whisper, words, calibration) ==
  /\ SPEECH_AVAILABLE = google
  /\ WHISPER_AVAILABLE = whisper
  /\ is_listening = FALSE
  /\ is_running = TRUE
  /\ listen_threads = << >>
  /\ wake_words = words
  /\ recognizer = google
  /\ calibrated = IF google THEN calibration ELSE "skipped"
  /\ heard = NoValue
  /\ AssistantConstructed(google, calibration)

\* the state SpeechEngine.__init__ leaves, with the backends that initialised,
\* the default wake words and a calibration that went through
EngineConstructed(google, whisper) ==
  EngineInitialised(google, whisper, DefaultWakeWords, "ok")

\* the state __init__ leaves, with the pyautogui import having succeeded or
\* not and `text` waiting to be parsed, and self.max_history then set to `limit`
Configured(available, text, limit) ==
  /\ commands = DefaultCommands
  /\ programs = DefaultPrograms
  /\ aliases = EmptyDict
  /\ command_history = << >>
  /\ max_history = limit
  /\ AUTOGUI_AVAILABLE = available
  /\ now = 0
  /\ procs = InitialProcs
  /\ autogui = << >>
  /\ spawned = << >>
  /\ utterance = text
  /\ call = [op |-> "__init__"]
  /\ parsed = NoValue
  /\ dispatched = NoValue
  /\ outcome = NoValue
  /\ envelope = NoValue
  /\ processed = << >>
  /\ writer = [at |-> "idle"]
  /\ foreground = [at |-> "idle"]
  /\ observed = NoValue
  /\ FeedbackConstructed(TRUE, BothBackends)
  /\ EngineConstructed(TRUE, FALSE)

\* the state __init__ leaves
Constructed(available, text) == Configured(available, text, DEFAULT_MAX_HISTORY)

Init == \E available \in BOOLEAN : Constructed(available, << >>)

\* any text of Texts waiting for the parser
InitParse == \E text \in Texts : Constructed(TRUE, text)

(***************************************************************************)
(* dict operations on self.commands                                         *)
(***************************************************************************)
\* self.commands.keys(), in iteration order
Keys(cmds) == [i \in 1..Len(cmds) |-> cmds[i].key]

\* key in self.commands
HasKey(cmds, k) == \E i \in 1..Len(cmds) : cmds[i].key = k

\* self.commands[k]
HandlerOf(cmds, k) == cmds[CHOOSE i \in 1..Len(cmds) : cmds[i].key = k].handler

\* self.commands[k] = h: an existing key keeps its place, a new one goes last
DictSet(cmds, k, h) ==
  IF HasKey(cmds, k)
  THEN [i \in 1..Len(cmds) |->
          IF cmds[i].key = k THEN [key |-> k, handler |-> h] ELSE cmds[i]]
  ELSE Append(cmds, [key |-> k, handler |-> h])

\* d[k] = v on a dict whose order is never read
MapSet(d, k, v) == [x \in (DOMAIN d) \cup {k} |-> IF x = k THEN v ELSE d[x]]

(***************************************************************************)
(* CommandProcessor._parse_command                                          *)
(***************************************************************************)
RECURSIVE FirstKeyFrom(_, _, _)
\* the loop `for cmd in self.commands.keys(): if cmd in text: ... break` from
\* the i-th key on: the first key that is a substring of text, None if none
FirstKeyFrom(cmds, text, i) ==
  IF i > Len(cmds) THEN None
  ELSE IF Contains(text, cmds[i].key) THEN cmds[i].key
  ELSE FirstKeyFrom(cmds, text, i + 1)

\* a parser that takes the keyword only at the start of the text
FirstKeyPrefix(cmds, text) ==
  LET hits == {i \in 1..Len(cmds) : MatchesAt(text, cmds[i].key, 1)}
  IN  IF hits = {} THEN None ELSE cmds[CHOOSE i \in hits : \A j \in hits : i <= j].key

\* a parser that takes the keyword standing leftmost in the text
FirstKeyByPosition(cmds, text) ==
  LET at(i) == CHOOSE n \in 1..(Len(text) + 1) :
                 MatchesAt(text, cmds[i].key, n)
                 /\ \A m \in 1..(n - 1) : ~MatchesAt(text, cmds[i].key, m)
      hits  == {i \in 1..Len(cmds) : Contains(text, cmds[i].key)}
  IN  IF hits = {} THEN None
      ELSE cmds[CHOOSE i \in hits :
                  \A j \in hits : at(i) < at(j) \/ (at(i) = at(j) /\ i <= j)].key

FirstKeyIn(cmds, text) == FirstKeyFrom(cmds, text, 1)

\* text.replace(cmd, "", 1)
RemoveKeywordOnce(text, cmd) == ReplaceFirst(text, cmd, << >>)

\* the keyword removed from the text: text.replace(cmd, "")
RemoveKeyword(text, cmd) == Replace(text, cmd, << >>)

\* an alias step that follows a second alias
ResolveAliasTwice(als, command) ==
  LET once == IF command \in DOMAIN als THEN als[command] ELSE command
  IN  IF once \in DOMAIN als THEN als[once] ELSE once

\* the alias step: if command in self.aliases: command = self.aliases[command]
ResolveAlias(als, command) ==
  IF command \in DOMAIN als THEN als[command] ELSE command

\* the text the parsed record keeps as "original"
OriginalOf(raw, text) == text

\* the record returned, given the lowered, trimmed text and the key found in it
ParsedRecord(als, raw, text, cmd) ==
  [ command  |-> ResolveAlias(als, cmd),
    args     |-> IF cmd = None THEN text ELSE Strip(RemoveKeyword(text, cmd)),
    original |-> OriginalOf(raw, text) ]

ParseCommand(cmds, als, raw) ==
  CHOOSE r \in { ParsedRecord(als, raw, text, cmd) :
                   text \in {Strip(Lower(raw))},
                   cmd \in {FirstKeyIn(cmds, Strip(Lower(raw)))} } : TRUE

(***************************************************************************)
(* Action handlers.  Each yields what the call does: whether it raised,     *)
(* the string returned (or the exception's message), the pyautogui calls    *)
(* and Popen calls it made and the processes it terminated.  `ok` says      *)
(* whether the collaborator call the handler makes succeeds.                *)
(***************************************************************************)
\* an f-string: its template and the value substituted
Msg(fmt, arg) == [fmt |-> fmt, arg |-> arg]

Returns(m) == [raised |-> FALSE, value |-> m, gui |-> << >>, spawn |-> << >>, kill |-> {}]

Raises(m) == [raised |-> TRUE, value |-> m, gui |-> << >>, spawn |-> << >>, kill |-> {}]

\* a subprocess.Popen call
Popen(cmd, query, shell) == [cmd |-> cmd, query |-> query, shell |-> shell]

\* an open handler that launches the name it is given, table or not
open_program_by_name(progs, program_name, ok) ==
  LET name == Strip(program_name)
  IN  IF ok /\ name # << >>
      THEN [Returns(Msg("Opened {}", name)) EXCEPT !.spawn = <<Popen(name, << >>, FALSE)>>]
      ELSE Raises(Msg("Failed to open {}: {e}", name))

open_program(progs, program_name, ok) ==
  LET name   == Strip(program_name)
      target == IF name \in DOMAIN progs THEN progs[name] ELSE name
  IN  \* launching the empty command line always fails
      IF ok /\ target # << >>
      THEN [Returns(Msg("Opened {}", name)) EXCEPT !.spawn = <<Popen(target, << >>, FALSE)>>]
      ELSE Raises(Msg("Failed to open {}: {e}", name))

\* a write handler without its empty-text test
write_text_unchecked(available, text, ok) ==
  IF ~available THEN Returns(Msg("PyAutoGUI not available for text input", << >>))
  ELSE IF ok
       THEN [Returns(Msg("Wrote text: {}", text)) EXCEPT !.gui = <<[fn |-> "write", arg |-> text]>>]
       ELSE Raises(Msg("Failed to write text: {e}", << >>))

write_text(available, text, ok) ==
  IF Strip(text) = << >> THEN Returns(Msg("No text to write", << >>))
  ELSE IF ~available THEN Returns(Msg("PyAutoGUI not available for text input", << >>))
  ELSE IF ok
       THEN [Returns(Msg("Wrote text: {}", text)) EXCEPT !.gui = <<[fn |-> "write", arg |-> text]>>]
       ELSE Raises(Msg("Failed to write text: {e}", << >>))

search_web(query, ok) ==
  IF Strip(query) = << >> THEN Returns(Msg("No search query provided", << >>))
  ELSE IF ok
       THEN [Returns(Msg("Searched for: {}", query)) EXCEPT
               !.spawn = <<Popen(<<"s","t","a","r","t">>, Replace(query, <<" ">>, <<"+">>), TRUE)>>]
       ELSE Raises(Msg("Failed to search: {e}", << >>))

\* the processes close_program's loop would terminate, given the name to look for
CloseTargets(ps, needle) ==
  LET hits == {p \in ps : p.name # << >> /\ Contains(Lower(p.name), Lower(needle))}
  IN  \* process_iter yields by ascending pid; the loop returns at its first hit
      IF hits = {} THEN {}
      ELSE {CHOOSE p \in hits : \A q \in hits : p.pid <= q.pid}

\* a close handler for which finding no process is an error
close_program_or_raise(progs, ps, program_name, ok) ==
  LET name   == Strip(program_name)
      needle == IF name \in DOMAIN progs THEN progs[name] ELSE name
      hit    == CloseTargets(ps, needle)
  IN  IF hit = {} THEN Raises(Msg("Could not find {} to close", name))
      ELSE IF ok THEN [Returns(Msg("Closed {}", name)) EXCEPT !.kill = hit]
      ELSE Raises(Msg("Failed to close {}: {e}", name))

close_program(progs, ps, program_name, ok) ==
  LET name   == Strip(program_name)
      needle == IF name \in DOMAIN progs THEN progs[name] ELSE name
      hit    == CloseTargets(ps, needle)
  IN  IF hit = {} THEN Returns(Msg("Could not find {} to close", name))
      ELSE IF ok THEN [Returns(Msg("Closed {}", name)) EXCEPT !.kill = hit]
      ELSE Raises(Msg("Failed to close {}: {e}", name))

\* copy_to_clipboard, paste_from_clipboard, take_screenshot: one pyautogui call
gui_action(available, fn, missing, done, failed, ok) ==
  IF ~available THEN Returns(Msg(missing, << >>))
  ELSE IF ok THEN [Returns(done) EXCEPT !.gui = <<[fn |-> fn, arg |-> << >>]>>]
  ELSE Raises(failed)

\* self.commands[command](args) for each handler of the table
Invoke(handler, args, progs, ps, available, ok) ==
  CASE handler = "open_program"  -> open_program(progs, args, ok)
    [] handler = "write_text"    -> write_text(available, args, ok)
    [] handler = "search_web"    -> search_web(args, ok)
    [] handler = "close_program" -> close_program(progs, ps, args, ok)
    [] handler = "copy_to_clipboard" ->
         gui_action(available, "hotkey ctrl c",
                    "PyAutoGUI not available for clipboard operations",
                    Msg("Copied to clipboard: {}", args),
                    Msg("Failed to copy to clipboard: {e}", << >>), ok)
    [] handler = "paste_from_clipboard" ->
         gui_action(available, "hotkey ctrl v",
                    "PyAutoGUI not available for clipboard operations",
                    Msg("Pasted from clipboard", << >>),
                    Msg("Failed to paste from clipboard: {e}", << >>), ok)
    [] handler = "take_screenshot" ->
         gui_action(available, "screenshot",
                    "PyAutoGUI not available for screenshots",
                    Msg("Screenshot saved as {}", << >>),
                    Msg("Failed to take screenshot: {e}", << >>), ok)
    [] handler = "control_volume"     -> Returns(Msg("Volume control: {}", args))
    [] handler = "control_brightness" -> Returns(Msg("Brightness control: {}", args))
    [] handler = "toggle_mute"        -> Returns(Msg("Toggled system mute", << >>))
    [] handler = "file_operations"    -> Returns(Msg("File operation: {}", args))
    [] handler = "get_time"           -> Returns(Msg("Current time: {}", << >>))
    [] handler = "get_date"           -> Returns(Msg("Current date: {}", << >>))
    [] handler = "get_weather"        -> Returns(Msg("Weather for {}: Not implemented yet", args))
    [] handler = "set_reminder"       -> Returns(Msg("Reminder set: {}", args))
    [] handler = "create_note"        -> Returns(Msg("Note created: {}", args))
    [] handler = "send_email"         -> Returns(Msg("Email: {}", args))
    [] handler = "send_message"       -> Returns(Msg("Message: {}", args))

(***************************************************************************)
(* CommandProcessor._execute_command                                        *)
(***************************************************************************)
\* the `not command or command not in self.commands` test
FallsBack(cmds, command) == command = None \/ command = << >> \/ ~HasKey(cmds, command)

\* the handler dispatched to and the string handed to it
Dispatch(cmds, p) ==
  IF FallsBack(cmds, p.command)
  THEN [handler |-> "write_text", arg |-> p.original]
  ELSE [handler |-> HandlerOf(cmds, p.command), arg |-> p.args]

ExecuteCommand(cmds, progs, ps, available, p, ok) ==
  LET d == Dispatch(cmds, p)
  IN  Invoke(d.handler, d.arg, progs, ps, available, ok)

(***************************************************************************)
(* CommandProcessor._add_to_history                                         *)
(***************************************************************************)
\* lst[-n:] (for n = 0 that is lst[0:], the whole list)
LastN(lst, n) ==
  IF n = 0 \/ Len(lst) <= n THEN lst
  ELSE IF n > 0 THEN SubSeq(lst, Len(lst) - n + 1, Len(lst))
  ELSE SubSeq(lst, 1 - n, Len(lst))

\* a trim that keeps the front of the list
AddToHistoryKeepOldest(hist, max, command, stamp) ==
  LET appended == Append(hist, [command |-> command, timestamp |-> stamp])
  IN  IF Len(appended) > max THEN SubSeq(appended, 1, max) ELSE appended

AddToHistory(hist, max, command, stamp) ==
  LET appended == Append(hist, [command |-> command, timestamp |-> stamp])
  IN  IF Len(appended) > max THEN LastN(appended, max) ELSE appended

\* a history filled only once the handler has returned
HistoryIfReturned(hist, max, text, stamp, raised) ==
  IF raised THEN hist ELSE AddToHistory(hist, max, text, stamp)

\* self.command_history when process_command returns: _add_to_history runs
\* first in the try block, so whether the handler raised changes nothing
HistoryAfterCall(hist, max, text, stamp, raised) == AddToHistory(hist, max, text, stamp)

(***************************************************************************)
(* Operations                                                               *)
(***************************************************************************)
\* a process_command without its except clause: a raise leaves no envelope
EnvelopeOrRaise(text, p, out, stamp) ==
  IF out.raised THEN NoValue
  ELSE [success |-> TRUE, command |-> text, parsed |-> p, result |-> out.value,
        timestamp |-> stamp]

\* an except clause that forgets the timestamp
EnvelopeUnstamped(text, p, out, stamp) ==
  IF out.raised
  THEN [success |-> FALSE, command |-> text, error |-> out.value]
  ELSE [success |-> TRUE, command |-> text, parsed |-> p, result |-> out.value,
        timestamp |-> stamp]

\* the Result Envelope process_command returns
EnvelopeOf(text, p, out, stamp) ==
  IF out.raised
  THEN [success |-> FALSE, command |-> text, error |-> out.value, timestamp |-> stamp]
  ELSE [success |-> TRUE, command |-> text, parsed |-> p, result |-> out.value,
        timestamp |-> stamp]

\* a process started by Popen shows up among the running processes
Started(ps, launches) ==
  LET top == IF ps = {} THEN 0 ELSE CHOOSE n \in {p.pid : p \in ps} : \A q \in ps : q.pid <= n
  IN  { [pid |-> top + i, name |-> launches[i].cmd] :
          i \in {j \in 1..Len(launches) : ~launches[j].shell} }

\* CommandProcessor.process_command(text)
process_command(text, ok, limit) ==
  /\ now < limit
  /\ \E p \in {ParseCommand(commands, aliases, text)} :
     \E out \in {ExecuteCommand(commands, programs, procs, AUTOGUI_AVAILABLE, p, ok)} :
         /\ command_history' =
              HistoryAfterCall(command_history, max_history, text, now, out.raised)
         /\ parsed' = p
         /\ dispatched' = Dispatch(commands, p)
         /\ outcome' = out
         /\ envelope' = EnvelopeOf(text, p, out, now)
         /\ autogui' = autogui \o out.gui
         /\ spawned' = spawned \o out.spawn
         /\ procs' = (procs \ out.kill) \cup Started(procs \ out.kill, out.spawn)
  /\ now' = now + 1
  /\ call' = [op |-> "process_command", text |-> text]
  /\ processed' = Append(processed, text)
  /\ UNCHANGED <<commands, programs, aliases, max_history, AUTOGUI_AVAILABLE, utterance>>
  /\ UNCHANGED elsewhere

\* what a call that neither parses nor dispatches leaves of the last one
NothingReturned ==
  /\ parsed' = NoValue
  /\ dispatched' = NoValue
  /\ outcome' = NoValue
  /\ envelope' = NoValue

\* CommandProcessor._parse_command(text), called on its own
parse_command(text) ==
  /\ parsed' = ParseCommand(commands, aliases, text)
  /\ dispatched' = NoValue
  /\ outcome' = NoValue
  /\ envelope' = NoValue
  /\ call' = [op |-> "_parse_command", text |-> text]
  /\ UNCHANGED <<commands, programs, aliases, command_history, max_history,
                 AUTOGUI_AVAILABLE, now, procs, autogui, spawned, utterance>>
  /\ UNCHANGED <<processed, elsewhere>>

\* CommandProcessor.add_command(name, handler)
add_command(name, handler) ==
  /\ commands' = DictSet(commands, Lower(name), handler)
  /\ call' = [op |-> "add_command"]
  /\ NothingReturned
  /\ UNCHANGED <<programs, aliases, command_history, max_history, AUTOGUI_AVAILABLE,
                 now, procs, autogui, spawned, utterance>>
  /\ UNCHANGED <<processed, elsewhere>>

\* CommandProcessor.add_program(name, path)
add_program(name, path) ==
  /\ programs' = MapSet(programs, Lower(name), path)
  /\ call' = [op |-> "add_program"]
  /\ NothingReturned
  /\ UNCHANGED <<commands, aliases, command_history, max_history, AUTOGUI_AVAILABLE,
                 now, procs, autogui, spawned, utterance>>
  /\ UNCHANGED <<processed, elsewhere>>

\* CommandProcessor.add_alias(alias, command)
add_alias(alias, command) ==
  /\ aliases' = MapSet(aliases, Lower(alias), Lower(command))
  /\ call' = [op |-> "add_alias"]
  /\ NothingReturned
  /\ UNCHANGED <<commands, programs, command_history, max_history, AUTOGUI_AVAILABLE,
                 now, procs, autogui, spawned, utterance>>
  /\ UNCHANGED <<processed, elsewhere>>

\* CommandProcessor.clear_history()
clear_history ==
  /\ command_history' = << >>
  /\ call' = [op |-> "clear_history"]
  /\ NothingReturned
  /\ processed' = << >>
  /\ UNCHANGED <<commands, programs, aliases, max_history, AUTOGUI_AVAILABLE,
                 now, procs, autogui, spawned, utterance>>
  /\ UNCHANGED elsewhere

Process == \E t \in Utterances, ok \in BOOLEAN : process_command(t, ok, MaxCalls)

\* the first command processed, whatever the tables have become by then
ProcessFirst == \E t \in Utterances, ok \in BOOLEAN : process_command(t, ok, 1)

Parse == parse_command(utterance)

AddCommand == \E a \in CommandArgs : add_command(a[1], a[2])

AddProgram == \E a \in ProgramArgs : add_program(a[1], a[2])

AddAlias == \E a \in AliasArgs : add_alias(a[1], a[2])

AddNewWordAlias == \E a \in NewWordAliasArgs : add_alias(a[1], a[2])

ClearHistory == clear_history

\* the router in use: commands processed one after the other
Next == Process \/ AddProgram \/ ClearHistory

Spec == Init /\ [][Next]_vars

\* the tables extended, then a command processed
NextTables == AddCommand \/ AddAlias \/ AddNewWordAlias \/ ProcessFirst

SpecTables == Init /\ [][NextTables]_vars

\* the parser on its own, over every text of Texts
NextParse == Parse \/ AddCommand \/ AddAlias

SpecParse == InitParse /\ [][NextParse]_vars

(***************************************************************************)
(* The parser's contract, checked under SpecParse: a text of Texts is       *)
(* parsed under every table the add_ calls can build.                       *)
(***************************************************************************)
\* a _parse_command call has just returned
JustParsed == call.op = "_parse_command"

\* the text _parse_command works on: the input lowercased and trimmed
Lowered(raw) == Strip(Lower(raw))

\* the places in the table of the keywords that are substrings of text
KeysIn(text) == {i \in 1..Len(commands) : Contains(text, commands[i].key)}

\* the least number of a non-empty set of numbers
Least(S) == CHOOSE i \in S : \A j \in S : i <= j

\* the keyword that comes first in the table among those the text contains
EarliestKey(text) ==
  CHOOSE k \in {commands[Least(hits)].key : hits \in {KeysIn(text)}} : TRUE

\* C1: parse(t) returns command = None if and only if no keyword of the
\* Command Table is a substring of the lowercased, trimmed t.
C1_NoneIffNoKeyword ==
  JustParsed => ((parsed.command = None) <=> (KeysIn(Lowered(call.text)) = {}))

\* C1 witness: a non-empty text with no keyword in it was parsed to None
C1_Witness ==
  /\ JustParsed
  /\ Lowered(call.text) # << >>
  /\ KeysIn(Lowered(call.text)) = {}
  /\ parsed.command = None

RECURSIVE ScanFrom(_, _, _)
\* the starts of the occurrences of a non-empty p that a left-to-right scan of
\* s removes: each the leftmost one that begins after the one before it ends
ScanFrom(s, p, from) ==
  LET occ == {i \in from..(Len(s) - Len(p) + 1) : MatchesAt(s, p, i)}
  IN  IF occ = {} THEN {}
      ELSE LET first == CHOOSE i \in occ : \A j \in occ : i <= j
           IN  {first} \cup ScanFrom(s, p, first + Len(p))

RECURSIVE Keep(_, _, _)
\* s from position j on, without the positions of `drop`
Keep(s, drop, j) ==
  IF j > Len(s) THEN << >>
  ELSE (IF j \in drop THEN << >> ELSE <<s[j]>>) \o Keep(s, drop, j + 1)

\* s with every occurrence of p that the scan finds cut out
WithoutAll(s, p) ==
  IF p = << >> THEN s
  ELSE CHOOSE r \in { Keep(s, {j \in 1..Len(s) : \E i \in starts : i <= j /\ j < i + Len(p)}, 1) :
                      starts \in {ScanFrom(s, p, 1)} } : TRUE

\* C2 as stated: args is the text with only the first occurrence of the
\* matched keyword removed, then trimmed.
C2_OnlyFirstRemoved ==
  JustParsed =>
    \A text \in {Lowered(call.text)} :
      KeysIn(text) # {} =>
        parsed.args = Strip(ReplaceFirst(text, EarliestKey(text), << >>))

\* C2 amended: args is the lowercased, trimmed text with every occurrence of
\* the matched keyword removed (scanning left to right, occurrences not
\* overlapping), then trimmed.
C2_EveryOccurrenceRemoved ==
  JustParsed =>
    \A text \in {Lowered(call.text)} :
      KeysIn(text) # {} =>
        \A key \in {EarliestKey(text)} : parsed.args = Strip(WithoutAll(text, key))

\* C2 witness: the matched keyword occurs twice in the text and neither
\* occurrence is left in args
C2_Witness ==
  /\ JustParsed
  /\ KeysIn(Lowered(call.text)) # {}
  /\ Cardinality(ScanFrom(Lowered(call.text), wOpen, 1)) >= 2
  /\ EarliestKey(Lowered(call.text)) = wOpen
  /\ ~Contains(parsed.args, wOpen)

\* self.aliases.get(k, k)
AliasOrSelf(k) == IF k \in DOMAIN aliases THEN aliases[k] ELSE k

\* the leftmost position at which p occurs in s
FirstAt(s, p) ==
  CHOOSE i \in 1..(Len(s) + 1) :
    MatchesAt(s, p, i) /\ \A j \in 1..(i - 1) : ~MatchesAt(s, p, j)

\* C3: when the text contains several keywords, parse returns the one that
\* comes first in the table's iteration order, wherever they stand in the
\* text; with the default table a text containing both "search" and "open"
\* resolves to "open".
C3_FirstInTableOrder ==
  JustParsed =>
    \A text \in {Lowered(call.text)} :
        /\ KeysIn(text) # {} => parsed.command = AliasOrSelf(EarliestKey(text))
        /\ (/\ commands = DefaultCommands
            /\ aliases = EmptyDict
            /\ Contains(text, wSearch)
            /\ Contains(text, wOpen)) => parsed.command = wOpen

\* C3 witness: "search" stands before "open" in the text, and "open", the
\* earlier key of the table, is returned
C3_Witness ==
  /\ JustParsed
  /\ aliases = EmptyDict
  /\ Contains(Lowered(call.text), wSearch)
  /\ Contains(Lowered(call.text), wOpen)
  /\ FirstAt(Lowered(call.text), wSearch) < FirstAt(Lowered(call.text), wOpen)
  /\ parsed.command = wOpen

\* C5: alias resolution is a single hop: with a -> b and b -> c registered
\* and keyword a matched, parse returns b, never c, and args is what it is
\* with no alias registered at all.
C5_SingleHop ==
  JustParsed =>
    \A text \in {Lowered(call.text)} :
      KeysIn(text) # {} =>
        \A key \in {EarliestKey(text)} :
          (key \in DOMAIN aliases /\ aliases[key] \in DOMAIN aliases) =>
             /\ parsed.command = aliases[key]
             /\ parsed.args = ParseCommand(commands, EmptyDict, call.text).args

\* C5 witness: "search" matched with search -> open and open -> zap
\* registered, and "open" returned
C5_Witness ==
  /\ JustParsed
  /\ KeysIn(Lowered(call.text)) # {}
  /\ EarliestKey(Lowered(call.text)) = wSearch
  /\ wSearch \in DOMAIN aliases
  /\ wOpen \in DOMAIN aliases
  /\ aliases[wSearch] = wOpen
  /\ aliases[wOpen] = wZap
  /\ parsed.command = wOpen

(***************************************************************************)
(* Dispatch under extended tables, checked under SpecTables: the tables     *)
(* are extended by add_command and add_alias, then one text is processed.   *)
(***************************************************************************)
\* a process_command call has just returned
JustProcessed == call.op = "process_command"

\* C4 as stated: after add_alias("go", "open"), processing a text that
\* contains "go" dispatches to the "open" handler with the args "open" would
\* have produced (the text without the keyword, trimmed).
C4_AliasWordDispatchesToOpen ==
  (/\ JustProcessed
   /\ wGo \in DOMAIN aliases
   /\ wOpen \notin DOMAIN aliases
   /\ aliases[wGo] = wOpen
   /\ Contains(Lowered(call.text), wGo)) =>
      /\ dispatched.handler = HandlerOf(commands, wOpen)
      /\ dispatched.arg = Strip(WithoutAll(Lowered(call.text), wGo))

\* C6 as stated: when the parsed command is None or no key of the table,
\* the write handler is invoked with the input text untouched: the whole
\* utterance, not args and not otherwise altered.
C6_FallbackWritesUntouchedInput ==
  (JustProcessed /\ (parsed.command = None \/ ~HasKey(commands, parsed.command))) =>
     /\ dispatched.handler = "write_text"
     /\ dispatched.arg = call.text

\* C10: process("") returns an envelope with success = true whose result is
\* the write handler's nothing-to-write message, and sends no text to
\* pyautogui.
C10_EmptyTextIsNoOp ==
  (JustProcessed /\ call.text = << >>) =>
     /\ "success" \in DOMAIN envelope
     /\ envelope.success
     /\ envelope.result = Msg("No text to write", << >>)
     /\ dispatched.handler = "write_text"
     /\ outcome.gui = << >>
     /\ autogui = << >>

\* C10 witness: "" processed with pyautogui available and "" itself
\* registered as a command keyword
C10_Witness ==
  /\ JustProcessed
  /\ call.text = << >>
  /\ AUTOGUI_AVAILABLE
  /\ HasKey(commands, << >>)
  /\ envelope.success

(***************************************************************************)
(* History and the Result Envelope, checked under Spec: texts processed     *)
(* one after the other.                                                     *)
(***************************************************************************)
\* C7: every process(text) call appends exactly one entry whose command is
\* text, whether or not the handler failed, and nothing but eviction of the
\* oldest entries or clear_history removes an entry.
C7_HistoryRecordsEveryCall ==
  [][ IF now' # now
      THEN LET full == Append(command_history, [command |-> call'.text, timestamp |-> now])
           IN  command_history' =
                 IF Len(full) > max_history
                 THEN SubSeq(full, Len(full) - max_history + 1, Len(full))
                 ELSE full
      ELSE call'.op = "clear_history" \/ command_history' = command_history ]_vars

\* C7 witness: the handler of the second call failed; its entry and the
\* first call's are both in the history
C7_Witness ==
  /\ JustProcessed
  /\ outcome.raised
  /\ Len(command_history) = 2
  /\ command_history[2].command = call.text
  /\ command_history[1].command # call.text

\* C8: process never propagates an error: a handler that fails gives an
\* envelope with success = false and the failure message in error, one that
\* returns gives success = true and its string in result.
C8_FailureBecomesEnvelope ==
  JustProcessed =>
     /\ "success" \in DOMAIN envelope
     /\ envelope.success = ~outcome.raised
     /\ outcome.raised => envelope.error = outcome.value
     /\ ~outcome.raised => envelope.result = outcome.value

\* C8 witness: a program launch failed and the envelope says so
C8_Witness ==
  /\ JustProcessed
  /\ dispatched.handler = "open_program"
  /\ outcome.raised
  /\ ~envelope.success
  /\ envelope.error = Msg("Failed to open {}: {e}", wNotepad)

\* C9 as stated: every envelope carries success, command, parsed,
\* result-or-error and timestamp.
C9_EnvelopeHasAllFields ==
  JustProcessed =>
     /\ {"success", "command", "parsed", "timestamp"} \subseteq DOMAIN envelope
     /\ "result" \in DOMAIN envelope \/ "error" \in DOMAIN envelope

\* C9 amended: every envelope carries success, command, timestamp and one of
\* result (on success) or error (on failure); parsed is carried on success
\* only, a failure envelope has no parsed field.
C9_EnvelopeFields ==
  JustProcessed =>
     /\ "success" \in DOMAIN envelope
     /\ DOMAIN envelope =
          IF envelope.success
          THEN {"success", "command", "parsed", "result", "timestamp"}
          ELSE {"success", "command", "error", "timestamp"}

\* C9 witness: a failure envelope, from a pyautogui.write that raised
C9_Witness ==
  /\ JustProcessed
  /\ dispatched.handler = "write_text"
  /\ ~envelope.success
  /\ "parsed" \notin DOMAIN envelope
  /\ "timestamp" \in DOMAIN envelope

(***************************************************************************)
(* The bounded history, checked under SpecHistory: more commands processed  *)
(* than self.max_history, under the default limit and under small ones.     *)
(***************************************************************************)
wTime == <<"t", "i", "m", "e">>
wDate == <<"d", "a", "t", "e">>

\* the values of self.max_history: the one __init__ sets and small ones
HistoryLimits == {1, 2, DEFAULT_MAX_HISTORY}

\* the commands processed: one text under the default limit, two under the small ones
HistoryTexts(limit) == IF limit = DEFAULT_MAX_HISTORY THEN {wTime} ELSE {wTime, wDate}

InitHistory == \E limit \in HistoryLimits : Configured(TRUE, << >>, limit)

ProcessSome == \E t \in HistoryTexts(max_history) : process_command(t, TRUE, max_history + MaxExtra)

NextHistory == ProcessSome \/ ClearHistory

SpecHistory == InitHistory /\ [][NextHistory]_vars

\* the smaller of two numbers
Min(a, b) == IF a <= b THEN a ELSE b

HistoryReads == {0, 10, 50}

\* the `if len(...) > self.max_history` trim of _add_to_history
TrimHistory(hist, max) == IF Len(hist) > max THEN LastN(hist, max) ELSE hist

\* CommandProcessor.get_history(limit)
get_history(limit) ==
  /\ observed' = IF limit # 0 THEN LastN(command_history, limit) ELSE command_history
  /\ call' = [op |-> "get_history", limit |-> limit]
  /\ NothingReturned
  /\ UNCHANGED <<commands, programs, aliases, command_history, max_history, AUTOGUI_AVAILABLE,
                 now, procs, autogui, spawned, utterance, processed, writer, foreground>>
  /\ UNCHANGED <<feedbackVars, engineVars>>

\* process_command on the capture thread, up to the append of _add_to_history
add_to_history_append(text, limit) ==
  /\ writer.at = "idle"
  /\ now < limit
  /\ command_history' = Append(command_history, [command |-> text, timestamp |-> now])
  /\ writer' = [at |-> "appended", text |-> text]
  /\ processed' = Append(processed, text)
  /\ observed' = NoValue
  /\ call' = [op |-> "_add_to_history", text |-> text]
  /\ NothingReturned
  /\ UNCHANGED <<commands, programs, aliases, max_history, AUTOGUI_AVAILABLE,
                 now, procs, autogui, spawned, utterance>>
  /\ UNCHANGED <<foreground, feedbackVars, engineVars>>

\* the rest of that process_command: the trim, then parse, dispatch and envelope
process_command_rest ==
  /\ writer.at = "appended"
  /\ \E p \in {ParseCommand(commands, aliases, writer.text)} :
     \E out \in {ExecuteCommand(commands, programs, procs, AUTOGUI_AVAILABLE, p, TRUE)} :
         /\ command_history' = TrimHistory(command_history, max_history)
         /\ parsed' = p
         /\ dispatched' = Dispatch(commands, p)
         /\ outcome' = out
         /\ envelope' = EnvelopeOf(writer.text, p, out, now)
         /\ autogui' = autogui \o out.gui
         /\ spawned' = spawned \o out.spawn
         /\ procs' = (procs \ out.kill) \cup Started(procs \ out.kill, out.spawn)
  /\ now' = now + 1
  /\ call' = [op |-> "process_command", text |-> writer.text]
  /\ writer' = [at |-> "idle"]
  /\ observed' = NoValue
  /\ UNCHANGED <<commands, programs, aliases, max_history, AUTOGUI_AVAILABLE, utterance,
                 processed>>
  /\ UNCHANGED <<foreground, feedbackVars, engineVars>>

InitReaders == Constructed(TRUE, << >>)

CaptureAppends == add_to_history_append(wTime, max_history + MaxExtra)

CaptureFinishes == process_command_rest

GetHistory == \E limit \in HistoryReads : get_history(limit)

NextReaders == CaptureAppends \/ CaptureFinishes \/ GetHistory

SpecReaders == InitReaders /\ [][NextReaders]_vars

\* C12 as stated: append and trim are one atomic step for concurrent
\* readers: a get_history from the foreground while the capture thread
\* runs process never returns a history longer than max_history.
C12_ReaderSeesBoundedHistory ==
  call.op = "get_history" => Len(observed) <= max_history

(***************************************************************************)
(* VoiceFeedback: speak and speak_immediate called from any thread, the     *)
(* feedback thread running _feedback_loop, enable_voice and disable_voice   *)
(* from the foreground. queue.Queue makes put, get, get_nowait and empty    *)
(* each atomic; nothing else is.                                            *)
(***************************************************************************)
\* the CommandProcessor, untouched by VoiceFeedback
routerState ==
  << commands, programs, aliases, command_history, max_history, AUTOGUI_AVAILABLE, now,
     procs, autogui, spawned, utterance, parsed, dispatched, outcome, envelope,
     processed, writer, foreground, observed >>

tA == <<"a">>
tB == <<"b">>
tX == <<"x">>

\* (text, priority) of the speak calls: two priorities, a text spoken by
\* default priority, and an empty text
SpeakArgs == { <<tA, 5>>, <<tB, 1>>, << << >>, 1 >> }

\* text of the speak_immediate calls
ImmediateArgs == { tX, << >> }

\* the backends _init_tts_engines can leave working
Backends == { BothBackends, [pyttsx3 |-> FALSE, gtts |-> TRUE], [pyttsx3 |-> FALSE, gtts |-> FALSE] }

\* a speak that queues its item whether the voice is on or off
speak_deferred(text, priority) ==
  /\ puts < MaxPuts
  /\ feedback_queue' = Append(feedback_queue, [priority |-> priority, text |-> text])
  /\ puts' = puts + 1
  /\ call' = [op |-> "speak"]
  /\ UNCHANGED <<voice_enabled, tts, voice_rate, consumer, interrupter, taken, spoken, routerState, taken_at_disable, engineVars>>

\* VoiceFeedback.speak(text, priority)
speak(text, priority) ==
  /\ puts < MaxPuts
  /\ IF voice_enabled
     THEN /\ feedback_queue' = Append(feedback_queue, [priority |-> priority, text |-> text])
          /\ puts' = puts + 1
     ELSE UNCHANGED <<feedback_queue, puts>>
  /\ call' = [op |-> "speak"]
  /\ UNCHANGED <<voice_enabled, tts, voice_rate, consumer, interrupter, taken, spoken, routerState, taken_at_disable, engineVars>>

\* speak_immediate(text): the voice_enabled test
speak_immediate_enter(text) ==
  /\ interrupter.at = "idle"
  /\ puts < MaxPuts
  /\ IF voice_enabled
     THEN /\ interrupter' = [at |-> "empty", text |-> text]
          /\ call' = [op |-> "speak_immediate", returned |-> "no"]
     ELSE /\ interrupter' = interrupter
          /\ call' = [op |-> "speak_immediate", returned |-> "disabled"]
  /\ UNCHANGED <<voice_enabled, feedback_queue, tts, voice_rate, consumer, puts, taken, spoken, routerState, taken_at_disable, engineVars>>

\* a speak_immediate that puts its item without clearing the queue
WhileNothing(queue) == "put"

\* where `while not self.feedback_queue.empty()` sends speak_immediate
WhileNotEmpty(queue) == IF queue = << >> THEN "put" ELSE "get_nowait"

\* speak_immediate: `while not self.feedback_queue.empty()`
speak_immediate_empty ==
  /\ interrupter.at = "empty"
  /\ interrupter' = [interrupter EXCEPT !.at = WhileNotEmpty(feedback_queue)]
  /\ call' = [op |-> "speak_immediate", returned |-> "no"]
  /\ UNCHANGED <<voice_enabled, feedback_queue, tts, voice_rate, consumer, puts, taken, spoken, routerState, taken_at_disable, engineVars>>

\* speak_immediate: get_nowait(), and the break on queue.Empty
speak_immediate_get_nowait ==
  /\ interrupter.at = "get_nowait"
  /\ IF feedback_queue # << >>
     THEN /\ feedback_queue' = Tail(feedback_queue)
          /\ interrupter' = [interrupter EXCEPT !.at = "empty"]
     ELSE /\ feedback_queue' = feedback_queue
          /\ interrupter' = [interrupter EXCEPT !.at = "put"]
  /\ call' = [op |-> "speak_immediate", returned |-> "no"]
  /\ UNCHANGED <<voice_enabled, tts, voice_rate, consumer, puts, taken, spoken, routerState, taken_at_disable, engineVars>>

\* speak_immediate: put((0, text)), and the return
speak_immediate_put ==
  /\ interrupter.at = "put"
  /\ feedback_queue' = Append(feedback_queue, [priority |-> 0, text |-> interrupter.text])
  /\ puts' = puts + 1
  /\ interrupter' = [at |-> "idle"]
  /\ call' = [op |-> "speak_immediate", text |-> interrupter.text, returned |-> "put"]
  /\ UNCHANGED <<voice_enabled, tts, voice_rate, consumer, taken, spoken, routerState, taken_at_disable, engineVars>>

\* a loop that never looks at the flag
WhileTrue(enabled) == "get"

\* where `while self.voice_enabled` sends the feedback thread
WhileEnabled(enabled) == IF enabled THEN "get" ELSE "dead"

\* _feedback_loop: `while self.voice_enabled`; the thread ends when it is false
feedback_loop_while ==
  /\ consumer.at = "top"
  /\ consumer' = [at |-> WhileEnabled(voice_enabled)]
  /\ call' = [op |-> "_feedback_loop"]
  /\ UNCHANGED <<voice_enabled, feedback_queue, tts, voice_rate, interrupter, puts, taken, spoken, routerState, taken_at_disable, engineVars>>

\* _feedback_loop: get(timeout=1): an item, or queue.Empty and `continue`;
\* an item with an empty text is dropped without a call of _speak_text
feedback_loop_get ==
  /\ consumer.at = "get"
  /\ IF feedback_queue = << >>
     THEN /\ consumer' = [at |-> "top"]
          /\ UNCHANGED <<feedback_queue, taken>>
     ELSE /\ feedback_queue' = Tail(feedback_queue)
          /\ taken' = Append(taken, Head(feedback_queue))
          /\ consumer' = IF Head(feedback_queue).text # << >>
                         THEN [at |-> "speaking", item |-> Head(feedback_queue)]
                         ELSE [at |-> "top"]
  /\ call' = [op |-> "_feedback_loop"]
  /\ UNCHANGED <<voice_enabled, tts, voice_rate, interrupter, puts, spoken, routerState, taken_at_disable, engineVars>>

\* the backend _speak_text picks
BackendOf(backends) ==
  IF backends.pyttsx3 THEN "pyttsx3" ELSE IF backends.gtts THEN "gtts" ELSE "none"

\* a loop that a speech error ends
StopOnError(ok) == IF ok THEN "top" ELSE "dead"

\* where the feedback thread goes after _speak_text: the except clauses of
\* _speak_text and _feedback_loop keep every error inside the iteration
AfterSpeakText(ok) == "top"

\* _speak_text(text): the backend speaks or fails; either way the exception
\* stays inside and the loop goes back to its top
speak_text(ok) ==
  /\ consumer.at = "speaking"
  /\ spoken' = Append(spoken, [item |-> consumer.item, backend |-> BackendOf(tts),
                                ok |-> ok /\ BackendOf(tts) # "none"])
  /\ consumer' = [at |-> AfterSpeakText(ok /\ BackendOf(tts) # "none")]
  /\ call' = [op |-> "_feedback_loop"]
  /\ UNCHANGED <<voice_enabled, feedback_queue, tts, voice_rate, interrupter, puts, taken, routerState, taken_at_disable, engineVars>>

\* VoiceFeedback.enable_voice(): a new thread only when none is alive
enable_voice ==
  /\ voice_enabled' = TRUE
  /\ consumer' = IF consumer.at = "dead" THEN [at |-> "top"] ELSE consumer
  /\ call' = [op |-> "enable_voice"]
  /\ UNCHANGED <<feedback_queue, tts, voice_rate, interrupter, puts, taken, spoken, routerState, taken_at_disable, engineVars>>

\* VoiceFeedback.disable_voice()
disable_voice ==
  /\ voice_enabled' = FALSE
  /\ taken_at_disable' = Len(taken)
  /\ call' = [op |-> "disable_voice"]
  /\ UNCHANGED <<feedback_queue, tts, voice_rate, consumer, interrupter, puts, taken, spoken, routerState,
                 engineVars>>

\* the CommandProcessor as __init__ leaves it, nothing called yet
RouterConstructed ==
  /\ commands = DefaultCommands
  /\ programs = DefaultPrograms
  /\ aliases = EmptyDict
  /\ command_history = << >>
  /\ max_history = DEFAULT_MAX_HISTORY
  /\ AUTOGUI_AVAILABLE = TRUE
  /\ now = 0
  /\ procs = InitialProcs
  /\ autogui = << >>
  /\ spawned = << >>
  /\ utterance = << >>
  /\ call = [op |-> "__init__"]
  /\ parsed = NoValue
  /\ dispatched = NoValue
  /\ outcome = NoValue
  /\ envelope = NoValue
  /\ processed = << >>
  /\ writer = [at |-> "idle"]
  /\ foreground = [at |-> "idle"]
  /\ observed = NoValue

InitFeedback ==
  \E enabled \in BOOLEAN, backends \in Backends :
     RouterConstructed /\ FeedbackConstructed(enabled, backends) /\ EngineConstructed(TRUE, FALSE)

\* voice feedback on, as XizoEnhanced constructs it by default
InitImmediate ==
  RouterConstructed /\ FeedbackConstructed(TRUE, BothBackends) /\ EngineConstructed(TRUE, FALSE)

Speak == \E a \in SpeakArgs : speak(a[1], a[2])

SpeakImmediate == \E text \in ImmediateArgs : speak_immediate_enter(text)

SpeakImmediateEmpty == speak_immediate_empty

SpeakImmediateGet == speak_immediate_get_nowait

SpeakImmediatePut == speak_immediate_put

FeedbackLoopWhile == feedback_loop_while

FeedbackLoopGet == feedback_loop_get

SpeakText == \E ok \in BOOLEAN : speak_text(ok)

EnableVoice == enable_voice

DisableVoice == disable_voice

\* items queued by speak and consumed by the feedback thread, the voice
\* switched off and on meanwhile
NextFeedback ==
  \/ Speak
  \/ FeedbackLoopWhile
  \/ FeedbackLoopGet
  \/ SpeakText
  \/ EnableVoice
  \/ DisableVoice

SpecFeedback == InitFeedback /\ [][NextFeedback]_vars

\* speak_immediate running while other threads call speak and the feedback
\* thread consumes
NextImmediate ==
  \/ Speak
  \/ SpeakImmediate
  \/ SpeakImmediateEmpty
  \/ SpeakImmediateGet
  \/ SpeakImmediatePut
  \/ FeedbackLoopWhile
  \/ FeedbackLoopGet
  \/ SpeakText

SpecImmediate == InitImmediate /\ [][NextImmediate]_vars

(***************************************************************************)
(* The feedback queue's order, checked under SpecFeedback.                  *)
(***************************************************************************)
\* the feedback thread has just got an item it will speak
JustDequeued == call.op = "_feedback_loop" /\ consumer.at = "speaking"

\* C13 as stated: the queue is ordered by (priority, enqueue order): the
\* item the consumer takes has the lowest priority integer among the
\* pending ones (speak(a, 5) then speak(b, 1), both pending, yields b first).
C13_LowestPriorityFirst ==
  JustDequeued =>
     \A i \in 1..Len(feedback_queue) : consumer.item.priority <= feedback_queue[i].priority

(***************************************************************************)
(* speak calls, then speak_immediate, then the feedback thread draining the *)
(* queue, checked under SpecInterrupt: the three run one after the other.   *)
(***************************************************************************)
\* no speak_immediate called yet
NotInterrupted == call.op \in {"__init__", "speak"}

\* speak_immediate has returned
Interrupted ==
  \/ call.op = "speak_immediate" /\ call.returned = "put"
  \/ call.op = "_feedback_loop"

InitInterrupt ==
  \E backends \in Backends :
     RouterConstructed /\ FeedbackConstructed(TRUE, backends) /\ EngineConstructed(TRUE, FALSE)

SpeakBefore == NotInterrupted /\ Speak

InterruptAfter == NotInterrupted /\ SpeakImmediate

DrainWhile == Interrupted /\ feedback_loop_while

DrainGet == Interrupted /\ feedback_loop_get

DrainSpeakText == Interrupted /\ \E ok \in BOOLEAN : speak_text(ok)

NextInterrupt ==
  \/ SpeakBefore
  \/ InterruptAfter
  \/ SpeakImmediateEmpty
  \/ SpeakImmediateGet
  \/ SpeakImmediatePut
  \/ DrainWhile
  \/ DrainGet
  \/ DrainSpeakText

SpecInterrupt == InitInterrupt /\ [][NextInterrupt]_vars

\* the feedback thread has emptied the queue and holds nothing
Drained ==
  /\ call.op = "_feedback_loop"
  /\ feedback_queue = << >>
  /\ consumer.at # "speaking"
  /\ taken # << >>

\* C14 as stated: however many speak calls came first, once the queue is
\* drained exactly one item was spoken, the priority-0 item of
\* speak_immediate, and none of the items of the speak calls.
C14_ExactlyTheInterruptSpoken ==
  Drained =>
     /\ Len(spoken) = 1
     /\ spoken[1].item.priority = 0
     /\ taken = <<spoken[1].item>>

\* C14 amended: none of the items of the earlier speak calls is ever spoken
\* and the consumer gets the priority-0 item x alone; x is spoken, once, when
\* its text is not empty, and when x is the empty text nothing is spoken.
C14_OnlyTheInterruptSpoken ==
  /\ \A i \in 1..Len(spoken) : spoken[i].item.priority = 0
  /\ Len(spoken) <= 1
  /\ Drained =>
        /\ Len(taken) = 1
        /\ taken[1].priority = 0
        /\ IF taken[1].text = << >> THEN spoken = << >>
           ELSE Len(spoken) = 1 /\ spoken[1].item = taken[1]

\* C14 witness: two speak calls, then speak_immediate("x"); x alone was spoken
C14_Witness ==
  /\ Drained
  /\ puts = 3
  /\ Len(spoken) = 1
  /\ spoken[1].item = [priority |-> 0, text |-> tX]

(***************************************************************************)
(* speak_immediate against concurrent speak calls and the feedback thread,  *)
(* checked under SpecImmediate.                                             *)
(***************************************************************************)
\* C15 as stated: speak_immediate is atomic with respect to concurrent
\* speak calls and the consumer: at the moment it returns the queue holds
\* its (0, text) item and no other item.
C15_ImmediateLeavesOnlyItsItem ==
  (call.op = "speak_immediate" /\ call.returned = "put") =>
     /\ Len(feedback_queue) = 1
     /\ feedback_queue[1].priority = 0

(***************************************************************************)
(* disable_voice against the feedback thread, checked under SpecFeedback.   *)
(***************************************************************************)
\* C16 as stated: disable_voice leaves the pending items as they are, and
\* from its return until the next enable_voice no item is dequeued.
C16_NothingDequeuedWhileDisabled ==
  [][ /\ call'.op = "disable_voice" => feedback_queue' = feedback_queue
      /\ ~voice_enabled => taken' = taken ]_vars

\* C16 amended: disable_voice leaves the pending items as they are; from
\* its return until the next enable_voice the feedback thread dequeues at
\* most one more item (when it had already passed its voice_enabled test),
\* after which it is not waiting for another, and the items still pending
\* stay in the queue.
C16_AtMostOneDequeuedWhileDisabled ==
  /\ [](~voice_enabled =>
          /\ Len(taken) <= taken_at_disable + 1
          /\ Len(taken) = taken_at_disable + 1 => consumer.at # "get")
  /\ [][ /\ call'.op = "disable_voice" => feedback_queue' = feedback_queue
         /\ (~voice_enabled /\ consumer.at # "get") => taken' = taken ]_vars

\* C16 witness: the voice was disabled with the thread about to get; it took
\* one more item and ended, another item still pending
C16_Witness ==
  /\ ~voice_enabled
  /\ Len(taken) = taken_at_disable + 1
  /\ consumer.at = "dead"
  /\ feedback_queue # << >>

(***************************************************************************)
(* What the feedback thread does with the items it gets, checked under      *)
(* SpecFeedback.                                                            *)
(***************************************************************************)
\* the items the feedback thread got and is done with
Handled == IF consumer.at = "speaking" THEN SubSeq(taken, 1, Len(taken) - 1) ELSE taken

\* the items of spoken, in order
SpokenItems == [i \in 1..Len(spoken) |-> spoken[i].item]

\* the `if text` test of _feedback_loop
HasText(item) == item.text # << >>

\* C17 as stated: every item the consumer dequeues gets exactly one
\* speaking attempt, succeeded or failed, and is then gone: it is put back
\* nowhere and never retried, and a failed attempt does not end the consumer.
C17_OneAttemptPerItem ==
  /\ SpokenItems = Handled
  /\ puts = Len(taken) + Len(feedback_queue)
  /\ consumer.at = "dead" => ~voice_enabled

\* C17 amended: every item the consumer dequeues whose text is not empty
\* gets exactly one speaking attempt, succeeded or failed, and an item with
\* an empty text gets none; either way the item is then gone, put back
\* nowhere and never retried, and a failed attempt does not end the consumer.
C17_OneAttemptPerSpokenItem ==
  /\ SpokenItems = SelectSeq(Handled, HasText)
  /\ puts = Len(taken) + Len(feedback_queue)
  /\ consumer.at = "dead" => ~voice_enabled

\* C17 witness: three items taken, one of them empty; the first attempt
\* failed and the consumer went on to speak the next
C17_Witness ==
  /\ Len(taken) = 3
  /\ \E i \in 1..3 : ~HasText(taken[i])
  /\ Len(spoken) = 2
  /\ ~spoken[1].ok
  /\ spoken[2].ok
  /\ consumer.at = "top"

(***************************************************************************)
(* SpeechEngine: start_listening, stop_listening and cleanup called from    *)
(* the foreground, and the threads running _listen_loop.                    *)
(***************************************************************************)
\* a start_listening that does not look at the backends
AnyBackend(google, whisper) == TRUE

\* SpeechEngine._has_working_backend()
has_working_backend(google, whisper) == google \/ whisper

\* SpeechEngine.start_listening(): a new thread at every successful call
start_listening ==
  /\ has_working_backend(SPEECH_AVAILABLE, WHISPER_AVAILABLE) => Len(listen_threads) < MaxStarts
  /\ IF ~has_working_backend(SPEECH_AVAILABLE, WHISPER_AVAILABLE)
     THEN /\ call' = [op |-> "start_listening", returned |-> FALSE]
          /\ UNCHANGED <<is_listening, listen_threads>>
     ELSE /\ is_listening' = TRUE
          /\ listen_threads' = Append(listen_threads, [at |-> "top"])
          /\ call' = [op |-> "start_listening", returned |-> TRUE]
  /\ UNCHANGED <<SPEECH_AVAILABLE, WHISPER_AVAILABLE, captureState, is_running, routerState, feedbackVars>>

\* SpeechEngine.stop_listening()
stop_listening ==
  /\ is_listening' = FALSE
  /\ call' = [op |-> "stop_listening"]
  /\ UNCHANGED <<SPEECH_AVAILABLE, WHISPER_AVAILABLE, captureState, is_running, listen_threads,
                 routerState, feedbackVars>>

\* SpeechEngine.cleanup()
cleanup ==
  /\ is_running' = FALSE
  /\ is_listening' = FALSE
  /\ call' = [op |-> "cleanup"]
  /\ UNCHANGED <<SPEECH_AVAILABLE, WHISPER_AVAILABLE, captureState, listen_threads, routerState, feedbackVars>>

\* a loop that looks at is_running alone
WhileRunning(listening, running) == IF running THEN "capture" ELSE "dead"

\* where `while self.is_listening and self.is_running` sends a thread
WhileListening(listening, running) == IF listening /\ running THEN "capture" ELSE "dead"

\* _listen_loop of thread i: the `while` test; the thread ends when it fails
listen_loop_while(i) ==
  /\ i \in 1..Len(listen_threads)
  /\ listen_threads[i].at = "top"
  /\ listen_threads' =
       [listen_threads EXCEPT ![i] = [at |-> WhileListening(is_listening, is_running)]]
  /\ call' = [op |-> "_listen_loop"]
  /\ UNCHANGED <<SPEECH_AVAILABLE, WHISPER_AVAILABLE, captureState, is_listening, is_running,
                 routerState, feedbackVars>>

\* _listen_loop of thread i: the capture window of _listen_for_speech comes
\* to its end (a text, None or an exception) and the thread is back at `while`
listen_loop_body(i) ==
  /\ i \in 1..Len(listen_threads)
  /\ listen_threads[i].at = "capture"
  /\ listen_threads' = [listen_threads EXCEPT ![i] = [at |-> "top"]]
  /\ call' = [op |-> "_listen_loop"]
  /\ UNCHANGED <<SPEECH_AVAILABLE, WHISPER_AVAILABLE, captureState, is_listening, is_running,
                 routerState, feedbackVars>>

\* the backends that initialised: any of the four combinations
InitEngine ==
  \E google \in BOOLEAN, whisper \in BOOLEAN :
     /\ RouterConstructed
     /\ FeedbackConstructed(TRUE, BothBackends)
     /\ EngineConstructed(google, whisper)

StartListening == start_listening

StopListening == stop_listening

Cleanup == cleanup

ListenLoopWhile == \E i \in 1..MaxStarts : listen_loop_while(i)

ListenLoopBody == \E i \in 1..MaxStarts : listen_loop_body(i)

NextEngine == StartListening \/ StopListening \/ Cleanup \/ ListenLoopWhile \/ ListenLoopBody

SpecEngine == InitEngine /\ [][NextEngine]_vars

\* the threads of start_listening that have not ended
AliveLoops == {i \in 1..Len(listen_threads) : listen_threads[i].at # "dead"}

C19_AtMostOneLoop == Cardinality(AliveLoops) <= 1

(***************************************************************************)
(* The capture loop after stop_listening, checked under SpecEngineLive:     *)
(* every thread of _listen_loop that can take a step eventually takes it    *)
(* (the OS schedules it, and each capture window comes to its end: the      *)
(* recognizer listens with timeout=1 and phrase_time_limit=5).              *)
(***************************************************************************)
LoopsProgress ==
  \A i \in 1..MaxStarts : WF_vars(listen_loop_while(i)) /\ WF_vars(listen_loop_body(i))

SpecEngineLive == InitEngine /\ [][NextEngine]_vars /\ LoopsProgress

\* C20: after stop_listening() and as long as no start_listening()
\* follows, a capture loop that reaches the top of its iteration sees the
\* flag and exits without opening a new capture window, and every capture
\* loop eventually has ended.
C20_StoppedLoopsEnd ==
  /\ (~is_listening) ~> (is_listening \/ AliveLoops = {})
  /\ [][ \A i \in 1..Len(listen_threads) :
            (~is_listening /\ listen_threads[i].at = "top") =>
               listen_threads'[i].at \in {"top", "dead"} ]_vars

\* C20 witness: stop_listening was called while the loop was in a capture
\* window; the loop came back to its `while`, saw the flag and ended
C20_Witness ==
  /\ ~is_listening
  /\ is_running
  /\ call.op = "_listen_loop"
  /\ listen_threads = <<[at |-> "dead"]>>

(***************************************************************************)
(* One iteration of SpeechEngine._listen_loop in detail: _listen_for_speech *)
(* picks the backend and returns a text or None, and _process_speech gates  *)
(* the text on the wake words, strips them and calls the callback           *)
(* (XizoEnhanced registers _on_voice_command, xizo_enhanced.py:27).         *)
(***************************************************************************)
\* the Wake Word Sets: the default one and the single word "xizo"
WakeWordSets == { DefaultWakeWords, << <<"x","i","z","o">> >> }

\* what recognize_google can return for a capture window
Transcripts ==
  { <<"X","i","z","o"," ","o","p","e","n"," ","n","o","t","e","p","a","d">>,
    <<"h","e","y"," ","x","i","z","o"," ","o","p","e","n"," ","n","o","t","e","p","a","d">>,
    <<"o","p","e","n"," ","n","o","t","e","p","a","d">>,
    <<"x","i","z","o">>,
    <<"x","i","z","o"," ","o","p","e","n"," ","x","i","z","o">>,
    <<"x","i","x","i","z","o","z","o"," ","o","p","e","n">>,
    << >> }

\* what a capture window can bring: the microphone fails to open, nothing is
\* said before the timeout (WaitTimeoutError), the audio is not understood
\* (UnknownValueError), the service fails (RequestError), or a transcript
Sounds ==
  { [kind |-> "device_error"], [kind |-> "no_speech"], [kind |-> "unintelligible"],
    [kind |-> "service_error"] }
  \cup { [kind |-> "speech", said |-> t] : t \in Transcripts }

\* a _listen_for_speech that goes on to Whisper when Google returned nothing
WithFallback(google, ready, whisper, sound) ==
  IF google /\ ready
  THEN IF sound.kind = "speech" \/ ~whisper THEN <<"google">> ELSE <<"google", "whisper">>
  ELSE IF whisper THEN <<"whisper">> ELSE << >>

\* SpeechEngine._listen_for_speech(): the backends it calls, in order
BackendsTried(google, ready, whisper, sound) ==
  IF google /\ ready THEN <<"google">>
  ELSE IF whisper THEN <<"whisper">>
  ELSE << >>

\* SpeechEngine._listen_google(): every exception is caught and None is
\* returned; a transcript is returned in lower case
listen_google(sound) == IF sound.kind = "speech" THEN Lower(sound.said) ELSE None

\* SpeechEngine._listen_whisper(): a placeholder that returns None
listen_whisper(sound) == None

\* what _listen_for_speech returns: the result of the last backend it called
listen_for_speech(tried, sound) ==
  IF tried = << >> THEN None
  ELSE IF tried[Len(tried)] = "google" THEN listen_google(sound)
  ELSE listen_whisper(sound)

\* Python truth of an Optional[str]
Truthy(text) == text # None /\ text # << >>

\* any(wake_word in text.lower() for wake_word in self.wake_words)
HasWakeWord(words, text) == \E k \in 1..Len(words) : Contains(Lower(text), words[k])

RECURSIVE StripWakeWords(_, _)
\* for wake_word in self.wake_words: text = text.replace(wake_word, "").strip()
StripWakeWords(words, text) ==
  IF words = << >> THEN text
  ELSE CHOOSE left \in { StripWakeWords(Tail(words), t) :
                            t \in {Strip(Replace(text, Head(words), << >>))} } : TRUE

\* a _process_speech that calls the callback with whatever stripping leaves
ForwardedUngated(words, text) == StripWakeWords(words, text)

\* what _process_speech(text) hands to the callback (None: no call)
Forwarded(words, text) ==
  IF ~HasWakeWord(words, text) THEN None
  ELSE LET rest == StripWakeWords(words, text)
       IN  IF rest # << >> THEN rest ELSE None

\* a loop whose thread dies of an exception of the callback
DiesOfCallback(cb) == IF cb = "raised" THEN "dead" ELSE "top"

\* where the thread is after _process_speech: `except Exception` in
\* _listen_loop logs what the callback raised, sleeps and loops
AfterProcessSpeech(cb) == "top"

\* _listen_loop of thread i: text = self._listen_for_speech(), `if text:`
listen_loop_listen(i, sound) ==
  /\ i \in 1..Len(listen_threads)
  /\ listen_threads[i].at = "capture"
  /\ \E tried \in {BackendsTried(SPEECH_AVAILABLE, recognizer, WHISPER_AVAILABLE, sound)} :
     \E text \in {listen_for_speech(tried, sound)} :
       /\ heard' = [thread |-> i, backends |-> tried, sound |-> sound.kind, text |-> text,
                    forwarded |-> None, callback |-> "not called"]
       /\ listen_threads' =
            [listen_threads EXCEPT ![i] =
               IF Truthy(text) THEN [at |-> "process", text |-> text] ELSE [at |-> "top"]]
  /\ call' = [op |-> "_listen_for_speech"]
  /\ UNCHANGED <<SPEECH_AVAILABLE, WHISPER_AVAILABLE, is_listening, is_running,
                 wake_words, recognizer, calibrated, robust, routerState, feedbackVars>>

\* _listen_loop of thread i: self._process_speech(text), the callback
\* returning or raising when it is called
process_speech(i, cb) ==
  /\ i \in 1..Len(listen_threads)
  /\ listen_threads[i].at = "process"
  /\ \E out \in {Forwarded(wake_words, listen_threads[i].text)} :
       /\ heard' = [heard EXCEPT !.thread = i,
                                 !.text = listen_threads[i].text,
                                 !.forwarded = out,
                                 !.callback = IF out = None THEN "not called" ELSE cb]
       /\ listen_threads' =
            [listen_threads EXCEPT ![i] =
               [at |-> IF out = None THEN "top" ELSE AfterProcessSpeech(cb)]]
  /\ call' = [op |-> "_process_speech"]
  /\ UNCHANGED <<SPEECH_AVAILABLE, WHISPER_AVAILABLE, is_listening, is_running,
                 wake_words, recognizer, calibrated, robust, routerState, feedbackVars>>

\* the engine with any backends and either Wake Word Set
InitCapture ==
  \E google \in BOOLEAN, whisper \in BOOLEAN, words \in WakeWordSets :
     /\ RouterConstructed
     /\ FeedbackConstructed(TRUE, BothBackends)
     /\ EngineInitialised(google, whisper, words, "ok")

\* start_listening with no capture loop started before
StartCapture == listen_threads = << >> /\ start_listening

ListenLoopListen == \E sound \in Sounds : listen_loop_listen(1, sound)

ProcessSpeech == \E cb \in {"returned", "raised"} : process_speech(1, cb)

CaptureLoopWhile == listen_loop_while(1)

NextCapture ==
  StartCapture \/ StopListening \/ CaptureLoopWhile \/ ListenLoopListen \/ ProcessSpeech

SpecCapture == InitCapture /\ [][NextCapture]_vars

\* C21: whatever a capture window brings (nothing said, audio not
\* understood, a service error, a device error) and whether the callback
\* returns or raises, the iteration leaves is_listening as it was and the
\* thread goes on to the `while` test of its next iteration; it never ends
\* inside the body.
C21_OutcomesKeepLoop ==
  [][ \A i \in 1..Len(listen_threads) :
        (/\ listen_threads[i].at \in {"capture", "process"}
         /\ call'.op \in {"_listen_for_speech", "_process_speech"})
        => /\ is_listening' = is_listening
           /\ listen_threads'[i].at \in {"process", "top"}
           /\ listen_threads[i].at = "process" => listen_threads'[i].at = "top" ]_vars

\* C21 witness: the callback raised, and the thread is at the top of its
\* next iteration with is_listening still set
C21_Witness ==
  /\ call.op = "_process_speech"
  /\ heard.callback = "raised"
  /\ is_listening
  /\ listen_threads = <<[at |-> "top"]>>

\* C22: an iteration attempts recognition through exactly one backend: the
\* networked one whenever it is available, whatever it then returns, and the
\* offline one only when the networked one is not available.
C22_OneBackendByPriority ==
  heard # NoValue =>
     /\ Len(heard.backends) = 1
     /\ SPEECH_AVAILABLE => heard.backends = <<"google">>
     /\ heard.backends = <<"whisper">> => ~SPEECH_AVAILABLE

\* C22 witness: both backends available, the networked one failed with a
\* service error, and nothing else was tried in that iteration
C22_Witness ==
  /\ SPEECH_AVAILABLE
  /\ WHISPER_AVAILABLE
  /\ call.op = "_listen_for_speech"
  /\ heard.sound = "service_error"
  /\ heard.backends = <<"google">>
  /\ heard.text = None

C24_CallbackOnlyForCommands ==
  (call.op = "_process_speech" /\ heard.callback # "not called") =>
     /\ \E k \in 1..Len(wake_words) : Contains(heard.text, wake_words[k])
     /\ heard.forwarded # None
     /\ Len(heard.forwarded) > 0
     /\ heard.forwarded = StripWakeWords(wake_words, heard.text)

\* C24 witness: the transcript "xizo" passed the wake-word test, nothing was
\* left of it and no callback was called
C24_Witness ==
  /\ call.op = "_process_speech"
  /\ heard.text = <<"x","i","z","o">>
  /\ heard.forwarded = None
  /\ heard.callback = "not called"

(***************************************************************************)
(* Starting to listen after the ambient-noise calibration of __init__, in   *)
(* the SpeechEngine and in the XizoAssistant of xizo_robust.py, which keeps *)
(* its own speech_working flag.                                             *)
(***************************************************************************)
\* how adjust_for_ambient_noise can end
Calibrations == {"ok", "failed"}

\* XizoAssistant.start_listening(): returns at once without speech_working
assistant_start_listening ==
  /\ robust.listen_threads < MaxStarts
  /\ robust' = IF ~robust.speech_working THEN robust
               ELSE [robust EXCEPT !.is_listening = TRUE,
                                   !.listen_threads = robust.listen_threads + 1]
  /\ call' = [op |-> "XizoAssistant.start_listening"]
  /\ UNCHANGED <<SPEECH_AVAILABLE, WHISPER_AVAILABLE, is_listening, is_running, listen_threads,
                 wake_words, recognizer, calibrated, heard, routerState, feedbackVars>>

\* XizoAssistant.stop_listening()
assistant_stop_listening ==
  /\ robust' = [robust EXCEPT !.is_listening = FALSE]
  /\ call' = [op |-> "XizoAssistant.stop_listening"]
  /\ UNCHANGED <<SPEECH_AVAILABLE, WHISPER_AVAILABLE, is_listening, is_running, listen_threads,
                 wake_words, recognizer, calibrated, heard, routerState, feedbackVars>>

\* any backends, and a calibration that went through or failed
InitCalibration ==
  \E google \in BOOLEAN, whisper \in BOOLEAN, calibration \in Calibrations :
     /\ RouterConstructed
     /\ FeedbackConstructed(TRUE, BothBackends)
     /\ EngineInitialised(google, whisper, DefaultWakeWords, calibration)

AssistantStartListening == assistant_start_listening

AssistantStopListening == assistant_stop_listening

NextCalibration ==
  \/ StartListening
  \/ StopListening
  \/ ListenLoopWhile
  \/ ListenLoopBody
  \/ AssistantStartListening
  \/ AssistantStopListening

SpecCalibration == InitCalibration /\ [][NextCalibration]_vars

\* C25 as stated: when the calibration failed with the recognizer and the
\* microphone constructed, a start_listening call succeeds and has spawned
\* the capture loop, in the SpeechEngine and in the XizoAssistant.
C25_FailedCalibrationStillStarts ==
  calibrated = "failed" =>
     /\ call.op = "start_listening" =>
          call.returned = TRUE /\ is_listening /\ Len(listen_threads) >= 1
     /\ call.op = "XizoAssistant.start_listening" =>
          robust.is_listening /\ robust.listen_threads >= 1

(***************************************************************************)
(* close: which processes a "close ..." command terminates, checked under   *)
(* Spec with two notepad processes running at the start.                    *)
(***************************************************************************)
\* a close handler was dispatched to in the call just made
JustClosed == JustProcessed /\ dispatched.handler = "close_program"

\* the name close_program looks for: the Program Table target of the name
\* given, or the name itself
Needle == IF Strip(dispatched.arg) \in DOMAIN programs
          THEN programs[Strip(dispatched.arg)]
          ELSE Strip(dispatched.arg)

\* the processes of ps whose name contains the needle, whatever the case
Matching(ps) == {q \in ps : Contains(Lower(q.name), Lower(Needle))}

\* C26 as stated: after a close that succeeded in terminating something, no
\* process whose name contains the target is left running.
C26_CloseTerminatesEveryMatch ==
  (JustClosed /\ ~outcome.raised /\ outcome.kill # {}) => Matching(procs) = {}

\* C27: a close that finds no process with a matching name terminates
\* nothing and returns its could-not-find message as a normal result, and
\* the envelope of the call has success = true.
C27_NothingToCloseIsSuccess ==
  (JustClosed /\ Matching(procs \cup outcome.kill) = {}) =>
     /\ outcome.kill = {}
     /\ ~outcome.raised
     /\ outcome.value = Msg("Could not find {} to close", Strip(dispatched.arg))
     /\ envelope.success = TRUE
     /\ envelope.result = outcome.value

\* C27 witness: "close doesnotexist" was processed and returned the message
C27_Witness ==
  /\ JustClosed
  /\ call.text = wClose \o sp \o <<"d","o","e","s","n","o","t","e","x","i","s","t">>
  /\ dispatched.arg = <<"d","o","e","s","n","o","t","e","x","i","s","t">>
  /\ outcome.kill = {}
  /\ envelope.success = TRUE
  /\ envelope.result = Msg("Could not find {} to close", <<"d","o","e","s","n","o","t","e","x","i","s","t">>)

(***************************************************************************)
(* XizoEnhanced: a command on its way from the capture loop or from the     *)
(* manual entry field through _on_voice_command to the CommandProcessor,    *)
(* the feedback queue and the history view.                                 *)
(***************************************************************************)
\* what the capture windows bring in this scenario
VoiceSounds ==
  { [kind |-> "no_speech"],
    [kind |-> "speech", said |-> <<"X","i","z","o"," ","o","p","e","n"," ","n","o","t","e","p","a","d">>],
    [kind |-> "speech", said |-> <<"o","p","e","n"," ","n","o","t","e","p","a","d">>] }

\* what is typed into the manual entry field
ManualEntries ==
  { <<"s","e","a","r","c","h"," ","b","e","s","t"," ","p","i","z","z","a"," ","n","e","a","r"," ","m","e">>,
    <<" ","x","i","z","o"," ","o","p","e","n"," ","n","o","t","e","p","a","d"," ">>,
    <<" "," ">> }

\* the history view asks for the last 50 commands
HISTORY_SHOWN == 50

\* XizoEnhanced._on_voice_command(text): process_command, the result spoken
\* through VoiceFeedback.speak at the default priority, refresh_history
on_voice_command(text, ok) ==
  /\ now < MaxCalls
  /\ \E p \in {ParseCommand(commands, aliases, text)} :
     \E out \in {ExecuteCommand(commands, programs, procs, AUTOGUI_AVAILABLE, p, ok)} :
     \E hist \in {HistoryAfterCall(command_history, max_history, text, now, out.raised)} :
         /\ command_history' = hist
         /\ parsed' = p
         /\ dispatched' = Dispatch(commands, p)
         /\ outcome' = out
         /\ envelope' = EnvelopeOf(text, p, out, now)
         /\ autogui' = autogui \o out.gui
         /\ spawned' = spawned \o out.spawn
         /\ procs' = (procs \ out.kill) \cup Started(procs \ out.kill, out.spawn)
         /\ IF voice_enabled
            THEN /\ feedback_queue' =
                      Append(feedback_queue,
                             [priority |-> 1,
                              text |-> Msg(IF out.raised THEN "Error: {}" ELSE "Executed: {}",
                                           out.value)])
                 /\ puts' = puts + 1
            ELSE UNCHANGED <<feedback_queue, puts>>
         /\ observed' = LastN(hist, HISTORY_SHOWN)
  /\ now' = now + 1
  /\ processed' = Append(processed, text)
  /\ UNCHANGED <<commands, programs, aliases, max_history, AUTOGUI_AVAILABLE, utterance, writer, foreground,
                 voice_enabled, tts, voice_rate, consumer, interrupter, taken,
                 taken_at_disable, spoken>>

\* _listen_loop of thread i: _process_speech with _on_voice_command as the
\* callback, the launch or GUI call of the handler succeeding or not
voice_command(i, ok) ==
  /\ i \in 1..Len(listen_threads)
  /\ listen_threads[i].at = "process"
  /\ \E out \in {Forwarded(wake_words, listen_threads[i].text)} :
       \/ out = None /\ process_speech(i, "returned")
       \/ /\ out # None
          /\ on_voice_command(out, ok)
          /\ heard' = [heard EXCEPT !.thread = i,
                                    !.text = listen_threads[i].text,
                                    !.forwarded = out,
                                    !.callback = "returned"]
          /\ listen_threads' = [listen_threads EXCEPT ![i] = [at |-> "top"]]
          /\ call' = [op |-> "_on_voice_command", via |-> "voice", text |-> out,
                      entry |-> listen_threads[i].text, launch |-> ok]
          /\ UNCHANGED <<SPEECH_AVAILABLE, WHISPER_AVAILABLE, is_listening, is_running,
                         wake_words, recognizer, calibrated, robust>>

\* a manual entry that has the wake words stripped like a recognized text
StrippedEntry(words, entry) == StripWakeWords(words, Strip(entry))

\* command = self.cmd_entry.get().strip()
ManualText(words, entry) == Strip(entry)

\* XizoEnhanced.execute_manual_command(): the entry, trimmed, goes to
\* _on_voice_command when it is not empty
execute_manual_command(entry, ok) ==
  /\ \E command \in {ManualText(wake_words, entry)} :
       IF command # << >>
       THEN /\ on_voice_command(command, ok)
            /\ call' = [op |-> "_on_voice_command", via |-> "manual", text |-> command,
                        entry |-> entry, launch |-> ok]
       ELSE /\ call' = [op |-> "execute_manual_command", entry |-> entry]
            /\ NothingReturned
            /\ UNCHANGED <<commands, programs, aliases, command_history, max_history,
                           AUTOGUI_AVAILABLE, now, procs, autogui, spawned, utterance,
                           processed, writer, foreground, observed, feedbackVars>>
  /\ UNCHANGED engineVars

\* XizoEnhanced as constructed, with either Wake Word Set
InitVoice ==
  \E words \in WakeWordSets :
     /\ RouterConstructed
     /\ FeedbackConstructed(TRUE, BothBackends)
     /\ EngineInitialised(TRUE, FALSE, words, "ok")

VoiceListen == \E sound \in VoiceSounds : listen_loop_listen(1, sound)

VoiceCommand == \E ok \in BOOLEAN : voice_command(1, ok)

ExecuteManualCommand == \E entry \in ManualEntries, ok \in BOOLEAN : execute_manual_command(entry, ok)

NextVoice ==
  \/ StartCapture
  \/ StopListening
  \/ CaptureLoopWhile
  \/ VoiceListen
  \/ VoiceCommand
  \/ ExecuteManualCommand

SpecVoice == InitVoice /\ [][NextVoice]_vars

\* a command just went through _on_voice_command
JustCommanded == call.op = "_on_voice_command"

\* C28: with wake words ["xizo"] and the default tables, the recognized
\* utterance "xizo open notepad" reaches the callback as "open notepad",
\* parses to command "open" with args "notepad" and is dispatched to the open
\* handler; when the launch succeeds, it launched the Program Table target
\* of "notepad" and the envelope has success = true.
C28_VoiceOpenNotepad ==
  (/\ JustCommanded
   /\ call.via = "voice"
   /\ wake_words = << <<"x","i","z","o">> >>
   /\ call.entry = <<"x","i","z","o"," ","o","p","e","n"," ","n","o","t","e","p","a","d">>) =>
      /\ call.text = wOpen \o sp \o wNotepad
      /\ parsed.command = wOpen
      /\ parsed.args = wNotepad
      /\ dispatched = [handler |-> "open_program", arg |-> wNotepad]
      /\ call.launch =>
           /\ outcome.spawn = <<Popen(DefaultPrograms[wNotepad], << >>, FALSE)>>
           /\ spawned[Len(spawned)] = Popen(<<"n","o","t","e","p","a","d",".","e","x","e">>, << >>, FALSE)
           /\ envelope.success = TRUE
           /\ envelope.command = wOpen \o sp \o wNotepad

\* C28 witness: the utterance went through with the launch succeeding
C28_Witness ==
  /\ JustCommanded
  /\ call.via = "voice"
  /\ wake_words = << <<"x","i","z","o">> >>
  /\ call.entry = <<"x","i","z","o"," ","o","p","e","n"," ","n","o","t","e","p","a","d">>
  /\ call.launch
  /\ envelope.success = TRUE
  /\ spawned = <<Popen(<<"n","o","t","e","p","a","d",".","e","x","e">>, << >>, FALSE)>>

\* C29: a manual entry reaches process_command trimmed and otherwise as
\* typed, with no wake-word test and nothing stripped; "search best pizza
\* near me" is dispatched to the search handler with args "best pizza near
\* me", which builds the query "best+pizza+near+me".
C29_ManualEntryBypassesWakeWords ==
  (JustCommanded /\ call.via = "manual") =>
     /\ call.text = Strip(call.entry)
     /\ envelope.command = Strip(call.entry)
     /\ call.entry = <<"s","e","a","r","c","h"," ","b","e","s","t"," ","p","i","z","z","a"," ","n","e","a","r"," ","m","e">> =>
          /\ ~HasWakeWord(wake_words, call.entry)
          /\ dispatched = [handler |-> "search_web", arg |-> <<"b","e","s","t"," ","p","i","z","z","a"," ","n","e","a","r"," ","m","e">>]
          /\ call.launch =>
               /\ outcome.spawn = <<Popen(<<"s","t","a","r","t">>, <<"b","e","s","t","+","p","i","z","z","a","+","n","e","a","r","+","m","e">>, TRUE)>>
               /\ envelope.success = TRUE

\* C29 witness: the search went through the manual entry with no wake word
\* in it
C29_Witness ==
  /\ JustCommanded
  /\ call.via = "manual"
  /\ call.entry = <<"s","e","a","r","c","h"," ","b","e","s","t"," ","p","i","z","z","a"," ","n","e","a","r"," ","m","e">>
  /\ call.launch
  /\ dispatched.handler = "search_web"
  /\ spawned = <<Popen(<<"s","t","a","r","t">>, <<"b","e","s","t","+","p","i","z","z","a","+","n","e","a","r","+","m","e">>, TRUE)>>
  /\ envelope.success = TRUE

(***************************************************************************)
(* XizoEnhanced.load_config(), called once by __init__ after the            *)
(* components are constructed: the whole body is one try block, and what    *)
(* was assigned before an exception stays assigned.                         *)
(***************************************************************************)
\* the voice_feedback entry of a config.json: a dict of settings, a value
\* that is no dict (config['voice_feedback'].get then raises), or no entry
Settings(enabled, rate) == [kind |-> "dict", enabled |-> enabled, rate |-> rate]

NoDict == [kind |-> "other", enabled |-> FALSE, rate |-> 0]

NoSettings == [kind |-> "absent", enabled |-> FALSE, rate |-> 0]

\* the wake_words entry: a list of words, or no entry
Words(list) == [present |-> TRUE, list |-> list]

NoWords == [present |-> FALSE, list |-> << >>]

\* config.json on disk: missing, rejected by json.load, or parsed
ConfigFile(exists, parses, words, settings) ==
  [exists |-> exists, parses |-> parses, wake_words |-> words, voice_feedback |-> settings]

\* the config.json files: none, one that json.load rejects, a complete one,
\* one with wake words only, and two whose voice_feedback entry is no dict
ConfigFiles ==
  { ConfigFile(FALSE, FALSE, NoWords, NoSettings),
    ConfigFile(TRUE, FALSE, NoWords, NoSettings),
    ConfigFile(TRUE, TRUE, Words(<< <<"c","o","m","p","u","t","e","r">> >>), Settings(FALSE, 200)),
    ConfigFile(TRUE, TRUE, Words(<< <<"x","i","z","o">> >>), NoSettings),
    ConfigFile(TRUE, TRUE, NoWords, NoDict),
    ConfigFile(TRUE, TRUE, Words(<< <<"c","o","m","p","u","t","e","r">> >>), NoDict) }

\* what load_config leaves: whether it raised, and the three settings
Loaded(failed, words, enabled, rate) ==
  [failed |-> failed, wake_words |-> words, enabled |-> enabled, rate |-> rate]

\* the body of load_config, statement by statement: json.load, then the
\* wake words, then the voice feedback settings
LoadConfig(file, words, enabled, rate) ==
  IF ~file.exists THEN Loaded(FALSE, words, enabled, rate)
  ELSE IF ~file.parses THEN Loaded(TRUE, words, enabled, rate)
  ELSE LET read == IF file.wake_words.present THEN file.wake_words.list ELSE words
       IN  CASE file.voice_feedback.kind = "absent" -> Loaded(FALSE, read, enabled, rate)
             [] file.voice_feedback.kind = "other"  -> Loaded(TRUE, read, enabled, rate)
             [] file.voice_feedback.kind = "dict"   ->
                  Loaded(FALSE, read, file.voice_feedback.enabled, file.voice_feedback.rate)

\* XizoEnhanced.load_config() with `file` as the config.json on disk; the
\* exception, if any, is logged and the application goes on
load_config(file) ==
  /\ call.op = "__init__"
  /\ \E r \in {LoadConfig(file, wake_words, voice_enabled, voice_rate)} :
       /\ wake_words' = r.wake_words
       /\ voice_enabled' = r.enabled
       /\ voice_rate' = r.rate
       /\ call' = [op |-> "load_config", failed |-> r.failed]
  /\ UNCHANGED <<SPEECH_AVAILABLE, WHISPER_AVAILABLE, is_listening, is_running, listen_threads,
                 recognizer, calibrated, heard, robust>>
  /\ UNCHANGED <<feedback_queue, tts, consumer, interrupter, puts, taken, taken_at_disable,
                 spoken>>
  /\ UNCHANGED <<commands, programs, aliases, command_history, max_history, AUTOGUI_AVAILABLE,
                 now, procs, autogui, spawned, utterance, parsed, dispatched, outcome, envelope,
                 processed, writer, foreground, observed>>

\* XizoEnhanced as its constructor leaves the three components
InitConfig ==
  /\ RouterConstructed
  /\ FeedbackConstructed(TRUE, BothBackends)
  /\ EngineInitialised(TRUE, FALSE, DefaultWakeWords, "ok")

LoadConfigFile == \E file \in ConfigFiles : load_config(file)

\* the configuration loaded, then the capture loop run with what it left
NextConfig ==
  \/ LoadConfigFile
  \/ StartCapture
  \/ StopListening
  \/ CaptureLoopWhile
  \/ ListenLoopListen
  \/ ProcessSpeech

SpecConfig == InitConfig /\ [][NextConfig]_vars

\* the settings are the defaults of the constructors
DefaultsKept ==
  /\ wake_words = DefaultWakeWords
  /\ voice_enabled = TRUE
  /\ voice_rate = DEFAULT_VOICE_RATE

\* C30 as stated: when load_config failed, at whatever point, the wake
\* words, the voice-feedback flag and the rate all have their defaults.
C30_FailedLoadKeepsDefaults ==
  (call.op = "load_config" /\ call.failed) => DefaultsKept

(***************************************************************************)
(* XizoEnhanced.save_settings(): the settings are read from the widgets of  *)
(* the settings tab, written to config.json and then applied to the         *)
(* components by plain assignment.                                          *)
(***************************************************************************)
RECURSIVE SplitOn(_, _)
\* str.split(c) for a one-character separator
SplitOn(s, c) ==
  IF \A k \in 1..Len(s) : s[k] # c THEN <<s>>
  ELSE LET at == CHOOSE k \in 1..Len(s) : s[k] = c /\ \A j \in 1..(k - 1) : s[j] # c
       IN  <<SubSeq(s, 1, at - 1)>> \o SplitOn(SubSeq(s, at + 1, Len(s)), c)

\* self.wake_words_text.get(1.0, tk.END).strip().split('\n')
WakeWordsOf(field) == SplitOn(Strip(field), "\n")

\* save_settings with `field` in the wake-words box, the checkbox at
\* `enabled` and the scale at `rate`; `ok` says whether config.json could be
\* written (when not, the except clause reports it and nothing is applied)
save_settings(field, enabled, rate, ok) ==
  /\ IF ok
     THEN /\ wake_words' = WakeWordsOf(field)
          /\ voice_enabled' = enabled
          /\ voice_rate' = rate
     ELSE UNCHANGED <<wake_words, voice_enabled, voice_rate>>
  /\ call' = [op |-> "save_settings", saved |-> ok]
  /\ UNCHANGED <<SPEECH_AVAILABLE, WHISPER_AVAILABLE, is_listening, is_running, listen_threads,
                 recognizer, calibrated, heard, robust>>
  /\ UNCHANGED <<feedback_queue, tts, consumer, interrupter, puts, taken, taken_at_disable,
                 spoken>>
  /\ UNCHANGED routerState

(***************************************************************************)
(* The feedback thread and the flag, checked under SpecConsumer. The end of *)
(* the thread is taken in two steps here: the `while` test that fails, and  *)
(* the return of _feedback_loop, until which Thread.is_alive() is true.     *)
(***************************************************************************)
\* where `while self.voice_enabled` sends the thread, its return not yet made
WhileEnabledOrReturn(enabled) == IF enabled THEN "get" ELSE "exiting"

\* _feedback_loop: the `while self.voice_enabled` test
feedback_loop_test ==
  /\ consumer.at = "top"
  /\ consumer' = [at |-> WhileEnabledOrReturn(voice_enabled)]
  /\ call' = [op |-> "_feedback_loop"]
  /\ UNCHANGED <<voice_enabled, feedback_queue, tts, voice_rate, interrupter, puts, taken,
                 spoken, routerState, taken_at_disable, engineVars>>

\* _feedback_loop returns and the thread is no longer alive
feedback_loop_return ==
  /\ consumer.at = "exiting"
  /\ consumer' = [at |-> "dead"]
  /\ call' = [op |-> "_feedback_loop"]
  /\ UNCHANGED <<voice_enabled, feedback_queue, tts, voice_rate, interrupter, puts, taken,
                 spoken, routerState, taken_at_disable, engineVars>>

InitConsumer ==
  \E enabled \in BOOLEAN :
     RouterConstructed /\ FeedbackConstructed(enabled, BothBackends) /\ EngineConstructed(TRUE, FALSE)

FeedbackLoopTest == feedback_loop_test

FeedbackLoopReturn == feedback_loop_return

\* the settings saved with the checkbox either way, the rest as constructed
SaveEnabled ==
  \E enabled \in BOOLEAN, ok \in BOOLEAN :
     save_settings(<<"x","i","z","o">>, enabled, DEFAULT_VOICE_RATE, ok)

NextConsumer ==
  \/ Speak
  \/ FeedbackLoopTest
  \/ FeedbackLoopReturn
  \/ FeedbackLoopGet
  \/ SpeakText
  \/ EnableVoice
  \/ DisableVoice
  \/ SaveEnabled

SpecConsumer == InitConsumer /\ [][NextConsumer]_vars

\* C31 as stated: whenever voice_enabled is true, a feedback thread is alive.
C31_EnabledHasConsumer == voice_enabled => consumer.at # "dead"

(***************************************************************************)
(* The listening flag and the capture loops, checked under SpecEngine.      *)
(***************************************************************************)
\* C32 as stated: whatever start_listening, stop_listening and cleanup
\* calls were made, is_listening = true implies that a capture loop is alive
\* (running, or started and not yet run).
C32_ListeningHasLoop == is_listening => AliveLoops # {}

(***************************************************************************)
(* Two threads inside process_command, checked under SpecWriters: the       *)
(* capture thread (_on_voice_command) and the foreground                    *)
(* (execute_manual_command) both call command_processor.process_command,    *)
(* and nothing guards self.command_history. list.append is one step; the    *)
(* trim `self.command_history = self.command_history[-max:]` reads the      *)
(* list, builds a new one, and then stores it.                              *)
(***************************************************************************)
Callers == {"capture", "foreground"}

\* where the calling thread is inside process_command
Thread(who) == IF who = "capture" THEN writer ELSE foreground

\* the calling thread moves on; the other one stays where it is
Moves(who, to) ==
  IF who = "capture" THEN writer' = to /\ UNCHANGED foreground
  ELSE foreground' = to /\ UNCHANGED writer

\* what each caller hands to process_command: the spoken command, the typed one
TextOf(who) == IF who = "capture" THEN wTime ELSE wDate

\* _add_to_history: self.command_history.append({...})
add_to_history_appends(who, text, limit) ==
  /\ Thread(who).at = "idle"
  /\ now < limit
  /\ command_history' = Append(command_history, [command |-> text, timestamp |-> now])
  /\ Moves(who, [at |-> "appended", text |-> text, kept |-> << >>])
  /\ processed' = Append(processed, text)
  /\ observed' = NoValue
  /\ call' = [op |-> "_add_to_history", text |-> text]
  /\ NothingReturned
  /\ UNCHANGED <<commands, programs, aliases, max_history, AUTOGUI_AVAILABLE,
                 now, procs, autogui, spawned, utterance>>
  /\ UNCHANGED <<feedbackVars, engineVars>>

\* _add_to_history: `if len(self.command_history) > self.max_history`, and
\* the right-hand side self.command_history[-self.max_history:] when it is
add_to_history_slices(who) ==
  /\ Thread(who).at = "appended"
  /\ IF Len(command_history) > max_history
     THEN Moves(who, [at |-> "sliced", text |-> Thread(who).text,
                      kept |-> LastN(command_history, max_history)])
     ELSE Moves(who, [at |-> "trimmed", text |-> Thread(who).text, kept |-> << >>])
  /\ call' = [op |-> "_add_to_history", text |-> Thread(who).text]
  /\ UNCHANGED <<commands, programs, aliases, command_history, max_history,
                 AUTOGUI_AVAILABLE, now, procs, autogui, spawned, utterance, parsed,
                 dispatched, outcome, envelope, processed, observed>>
  /\ UNCHANGED <<feedbackVars, engineVars>>

\* _add_to_history: the assignment self.command_history = <the slice>
add_to_history_stores(who) ==
  /\ Thread(who).at = "sliced"
  /\ command_history' = Thread(who).kept
  /\ Moves(who, [at |-> "trimmed", text |-> Thread(who).text, kept |-> << >>])
  /\ call' = [op |-> "_add_to_history", text |-> Thread(who).text]
  /\ UNCHANGED <<commands, programs, aliases, max_history, AUTOGUI_AVAILABLE, now, procs,
                 autogui, spawned, utterance, parsed, dispatched, outcome, envelope,
                 processed, observed>>
  /\ UNCHANGED <<feedbackVars, engineVars>>

\* process_command after _add_to_history: parse, dispatch and envelope
process_command_returns(who) ==
  /\ Thread(who).at = "trimmed"
  /\ \E p \in {ParseCommand(commands, aliases, Thread(who).text)} :
     \E out \in {ExecuteCommand(commands, programs, procs, AUTOGUI_AVAILABLE, p, TRUE)} :
         /\ parsed' = p
         /\ dispatched' = Dispatch(commands, p)
         /\ outcome' = out
         /\ envelope' = EnvelopeOf(Thread(who).text, p, out, now)
         /\ autogui' = autogui \o out.gui
         /\ spawned' = spawned \o out.spawn
         /\ procs' = (procs \ out.kill) \cup Started(procs \ out.kill, out.spawn)
  /\ now' = now + 1
  /\ call' = [op |-> "process_command", text |-> Thread(who).text]
  /\ Moves(who, [at |-> "idle"])
  /\ observed' = NoValue
  /\ UNCHANGED <<commands, programs, aliases, command_history, max_history,
                 AUTOGUI_AVAILABLE, utterance, processed>>
  /\ UNCHANGED <<feedbackVars, engineVars>>

InitWriters == Constructed(TRUE, << >>)

\* a voice command at any time; a typed one once the history is full
VoiceAppends == add_to_history_appends("capture", TextOf("capture"), max_history + MaxExtra)

ManualAppends ==
  /\ Len(command_history) >= max_history
  /\ add_to_history_appends("foreground", TextOf("foreground"), max_history + MaxExtra)

CallerSlices == \E who \in Callers : add_to_history_slices(who)

CallerStores == \E who \in Callers : add_to_history_stores(who)

CallerReturns == \E who \in Callers : process_command_returns(who)

NextWriters == VoiceAppends \/ ManualAppends \/ CallerSlices \/ CallerStores \/ CallerReturns

SpecWriters == InitWriters /\ [][NextWriters]_vars

\* both calls are over
BothReturned == writer.at = "idle" /\ foreground.at = "idle"

\* C33 as stated: when process is called concurrently from the capture
\* thread and from the foreground, no history entry is lost other than by
\* oldest-first eviction: once both calls are over the history holds the
\* most recent min(n, max_history) commands of the n processed, in the order
\* they were appended.
C33_NoEntryLost ==
  BothReturned =>
    LET n == Len(command_history)
    IN  /\ n = Min(Len(processed), max_history)
        /\ \A i \in 1..n : command_history[i].command = processed[Len(processed) - n + i]

(***************************************************************************)
(* speak and speak_immediate while the voice is off, checked under          *)
(* SpecMuted: every call made while voice_enabled is false carries a text   *)
(* no other call uses, so that an item found anywhere with that text was    *)
(* queued by such a call.                                                   *)
(***************************************************************************)
tMuted == <<"m">>

InitMuted ==
  \E enabled \in BOOLEAN :
     RouterConstructed /\ FeedbackConstructed(enabled, BothBackends) /\ EngineConstructed(TRUE, FALSE)

\* the calls whose items may be queued: one text each, made at any time
SpeakAloud == speak(tA, 1)

SpeakImmediateAloud == speak_immediate_enter(tX)

SpeakMuted == ~voice_enabled /\ speak(tMuted, 1)

SpeakImmediateMuted == ~voice_enabled /\ speak_immediate_enter(tMuted)

SpeakTextAloud == speak_text(TRUE)

NextMuted ==
  \/ SpeakAloud
  \/ SpeakMuted
  \/ SpeakImmediateAloud
  \/ SpeakImmediateMuted
  \/ SpeakImmediateEmpty
  \/ SpeakImmediateGet
  \/ SpeakImmediatePut
  \/ FeedbackLoopWhile
  \/ FeedbackLoopGet
  \/ SpeakTextAloud
  \/ EnableVoice
  \/ DisableVoice

SpecMuted == InitMuted /\ [][NextMuted]_vars

\* this step is a call of speak or of speak_immediate made while the voice is off
MutedCall ==
  /\ ~voice_enabled
  /\ \/ call'.op = "speak"
     \/ call'.op = "speak_immediate" /\ interrupter.at = "idle"

\* no item queued, about to be queued, taken or spoken carries the text of a
\* call made while the voice was off
NothingDeferred ==
  /\ \A i \in 1..Len(feedback_queue) : feedback_queue[i].text # tMuted
  /\ \A i \in 1..Len(taken) : taken[i].text # tMuted
  /\ \A i \in 1..Len(spoken) : spoken[i].item.text # tMuted
  /\ interrupter.at # "idle" => interrupter.text # tMuted
  /\ consumer.at = "speaking" => consumer.item.text # tMuted

\* C34: speak(text) and speak_immediate(text) called while voice_enabled is
\* false leave the feedback queue unchanged (speak_immediate returns at once,
\* without clearing it), and the message is dropped, not deferred: it is
\* never queued, taken or spoken, whatever enable_voice calls follow.
C34_MutedCallsAreDropped ==
  [][ /\ MutedCall => feedback_queue' = feedback_queue /\ interrupter' = interrupter
      /\ NothingDeferred' ]_vars

\* C34 witness: speak_immediate has just returned with the voice off, an
\* earlier item still queued and another one spoken before
C34_Witness ==
  /\ call = [op |-> "speak_immediate", returned |-> "disabled"]
  /\ ~voice_enabled
  /\ feedback_queue # << >>
  /\ Len(spoken) > 0

(***************************************************************************)
(* The Wake Word Set under everything that writes it, checked under         *)
(* SpecWakeWords: SpeechEngine.add_wake_word and remove_wake_word,          *)
(* XizoEnhanced.load_config and save_settings, and the capture loop that    *)
(* reads it in _process_speech.                                             *)
(***************************************************************************)
\* the Python test `w in words` on a list
InList(words, w) == \E k \in 1..Len(words) : words[k] = w

\* list.remove(w) for a w that is in the list: its first occurrence goes
ListRemove(words, w) ==
  LET at == CHOOSE k \in 1..Len(words) : words[k] = w /\ \A j \in 1..(k - 1) : words[j] # w
  IN  SubSeq(words, 1, at - 1) \o SubSeq(words, at + 1, Len(words))

\* the list after add_wake_word(w): the test is on w as given, the append on w.lower()
AddWakeWord(words, w) == IF InList(words, w) THEN words ELSE Append(words, Lower(w))

\* remove_wake_word(w): the test is on w as given, the remove on w.lower();
\* list.remove raises ValueError when its argument is not in the list
RemoveWakeWord(words, w) ==
  IF ~InList(words, w) THEN [raised |-> FALSE, words |-> words]
  ELSE IF InList(words, Lower(w)) THEN [raised |-> FALSE, words |-> ListRemove(words, Lower(w))]
  ELSE [raised |-> TRUE, words |-> words]

\* SpeechEngine.add_wake_word(w), on a list of fewer than `limit` words
add_wake_word(w, limit) ==
  /\ Len(wake_words) < limit
  /\ wake_words' = AddWakeWord(wake_words, w)
  /\ call' = [op |-> "add_wake_word", word |-> w]
  /\ UNCHANGED <<SPEECH_AVAILABLE, WHISPER_AVAILABLE, is_listening, is_running, listen_threads,
                 recognizer, calibrated, heard, robust, routerState, feedbackVars>>

\* SpeechEngine.remove_wake_word(w)
remove_wake_word(w) ==
  /\ \E r \in {RemoveWakeWord(wake_words, w)} :
       /\ wake_words' = r.words
       /\ call' = [op |-> "remove_wake_word", word |-> w, raised |-> r.raised]
  /\ UNCHANGED <<SPEECH_AVAILABLE, WHISPER_AVAILABLE, is_listening, is_running, listen_threads,
                 recognizer, calibrated, heard, robust, routerState, feedbackVars>>

\* the words handed to add_wake_word and remove_wake_word, in several letter cases
WakeWordArgs == { <<"x","i","z","o">>, <<"X","I","Z","O">>, <<"C","o","m","p","u","t","e","r">> }

\* the config.json files: none, and one whose wake word is capitalised
WakeWordFiles ==
  { ConfigFile(FALSE, FALSE, NoWords, NoSettings),
    ConfigFile(TRUE, TRUE, Words(<< <<"C","o","m","p","u","t","e","r">> >>), NoSettings) }

\* the wake-word field when the settings are saved: empty as setup_gui and
\* a start without config.json leave it, one word, two lines
WakeWordFields ==
  { << >>, <<"x","i","z","o">>, <<"x","i","z","o","\n","h","e","y"," ","x","i","z","o">> }

\* what the user says: a command with no wake phrase in it, and one with
SpokenCommands ==
  { <<"o","p","e","n"," ","n","o","t","e","p","a","d">>,
    <<"x","i","z","o"," ","o","p","e","n"," ","n","o","t","e","p","a","d">> }

InitWakeWords ==
  /\ RouterConstructed
  /\ FeedbackConstructed(TRUE, BothBackends)
  /\ EngineInitialised(TRUE, FALSE, DefaultWakeWords, "ok")

AddAWakeWord == \E w \in WakeWordArgs : add_wake_word(w, MaxWakeWords)

RemoveAWakeWord == \E w \in WakeWordArgs : remove_wake_word(w)

LoadWakeWords == \E file \in WakeWordFiles : load_config(file)

SaveWakeWords == \E field \in WakeWordFields : save_settings(field, TRUE, DEFAULT_VOICE_RATE, TRUE)

HearsCommand ==
  \E said \in SpokenCommands : listen_loop_listen(1, [kind |-> "speech", said |-> said])

ForwardsCommand == process_speech(1, "returned")

NextWakeWords ==
  \/ AddAWakeWord
  \/ RemoveAWakeWord
  \/ LoadWakeWords
  \/ SaveWakeWords
  \/ StartCapture
  \/ CaptureLoopWhile
  \/ HearsCommand
  \/ ForwardsCommand

SpecWakeWords == InitWakeWords /\ [][NextWakeWords]_vars

\* the transcript contains one of the non-empty phrases of the Wake Word Set
HasWakePhrase(words, text) ==
  \E k \in 1..Len(words) : words[k] # << >> /\ Contains(Lower(text), words[k])

\* C35 as stated: after any sequence of construction, add_wake_word,
\* remove_wake_word, configuration load and settings save, the Wake Word Set
\* holds only non-empty phrases, and a transcript that contains none of the
\* user's wake phrases is not forwarded to the callback.
C35_GatingStaysOn ==
  /\ \A k \in 1..Len(wake_words) : wake_words[k] # << >>
  /\ (call.op = "_process_speech" /\ heard.forwarded # None)
        => HasWakePhrase(wake_words, heard.text)

\* no phrase is twice in the list
NoDuplicates(words) ==
  \A j \in 1..Len(words) : \A k \in 1..Len(words) : words[j] = words[k] => j = k

\* C36 as stated: for every wake word w in any letter case and every
\* reachable Wake Word Set, add_wake_word(w) leaves the set without
\* duplicate entries, and remove_wake_word(w) does not raise and leaves the
\* set without the lowercased w.
C36_AddAndRemoveKeepASet ==
  /\ call.op = "add_wake_word" => NoDuplicates(wake_words)
  /\ call.op = "remove_wake_word" =>
        /\ ~call.raised
        /\ ~InList(wake_words, Lower(call.word))

(***************************************************************************)
(* What a started capture loop can deliver, checked under SpecDelivers:     *)
(* the engine with any backends, start_listening, no stop_listening, a      *)
(* callback registered. The thread of _listen_loop is scheduled whenever it *)
(* can take a step, and again and again a capture window holds a command    *)
(* spoken after the wake word (the most a user can do for the loop).        *)
(***************************************************************************)
wakeCommand == <<"x","i","z","o"," ","o","p","e","n"," ","n","o","t","e","p","a","d">>

HearsWakeCommand == listen_loop_listen(1, [kind |-> "speech", said |-> wakeCommand])

NextDelivers == StartCapture \/ CaptureLoopWhile \/ ListenLoopListen \/ ProcessSpeech

LoopIsScheduled ==
  /\ WF_vars(CaptureLoopWhile)
  /\ WF_vars(ListenLoopListen)
  /\ WF_vars(ProcessSpeech)

UserKeepsSpeaking == SF_vars(HearsWakeCommand)

SpecDelivers == InitCapture /\ [][NextDelivers]_vars /\ LoopIsScheduled /\ UserKeepsSpeaking

\* start_listening has just returned True
StartedListening == call.op = "start_listening" /\ call.returned

\* _process_speech has called the callback with a command
Delivered == heard # NoValue /\ heard.forwarded # None

\* C37 as stated: whenever start_listening() returns true, the running
\* capture loop can produce a transcript and forward it to the callback:
\* with the loop scheduled and the user speaking wake-word commands, a
\* command is eventually delivered, also with only the offline backend.
C37_ListeningDelivers == StartedListening ~> Delivered

====
